---- MODULE Spec2Model ----
(***************************************************************************)
(* Model of the document path / classification engine of keiridocs-app:    *)
(* the mail approve/reject handler, the document PATCH handler, the        *)
(* accountant export handler, the OCR response parser and the              *)
(* auto-classification rule engine, the settings API for the document      *)
(* types, and the path builder getDocumentPath.                            *)
(*                                                                         *)
(* Text values.  TLC strings are ASCII, so the Japanese literals of the    *)
(* source are written in romaji:                                           *)
(*   "keiri_shorui" = the root folder, "keiyakusho" = contract,            *)
(*   "seikyusho" = invoice, "ryoshusho" = receipt, "mishori" = the         *)
(*   unprocessed status, "shorizumi" = the processed status, "nen" and     *)
(*   "gatsu" = the year and month suffixes, "ichiji_hozon" = the           *)
(*   temporary intake folder.                                              *)
(* A path and every free text (vendor name, description, keyword) is a     *)
(* sequence of tokens; in a path the token "/" is the separator.           *)
(* A nullable column holds NULL (atomic text), NullText (token sequence)   *)
(* or NullNum (number) when it is null.                                    *)
(***************************************************************************)
EXTENDS Integers, Sequences, FiniteSets, TLC

VARIABLES
    mail_pending,   \* mail API: table mail_pending, id -> row
    documents,      \* table documents, a sequence of rows in insertion order
    files,          \* Dropbox: the set of paths that hold a file
    reqs,           \* mail API: the POST requests in flight, slot -> request
    faults,         \* the failures of external calls injected so far
    patchResp,      \* documents API: the response of the last PATCH
    exportResp,     \* accountant API: the response of the last export POST
    ocrIn,          \* OCR parser: the response text handed to parseOcrResponse
    ocrOut,         \* OCR parser: the outcome of parseOcrResponse
    ruleIn,         \* rule engine: the arguments of applyAutoClassifyRules
    ruleOut,        \* rule engine: the value applyAutoClassifyRules returned
    document_types, \* settings API: table document_types, a set of rows
    settingsResp,   \* settings API: the response of the last request
    pathIn,         \* path builder: the arguments of getDocumentPath
    pathOut,        \* path builder: the value getDocumentPath returned
    user_roles,     \* roles API: table user_roles, user -> role (NULL: no row)
    roleReqs,       \* roles API: the PATCH requests in flight, slot -> request
    mailbox,        \* mail fetch: the Gmail messages, id -> message
    fetchReq        \* mail fetch: the POST request and its progress

vars == <<mail_pending, documents, files, reqs, faults, patchResp, exportResp,
          ocrIn, ocrOut, ruleIn, ruleOut, document_types, settingsResp,
          pathIn, pathOut, user_roles, roleReqs, mailbox, fetchReq>>

(***************************************************************************)
(* Null values and small helpers                                           *)
(***************************************************************************)
NULL == "null"
NullText == <<NULL>>
NullNum == -1
\* A calendar date column (YYYY-MM-DD); NullDate is SQL null.
NullDate == [y |-> 0, m |-> 0, d |-> 0]

\* JavaScript's a ?? b for atomic text
Coalesce(a, b) == IF a = NULL THEN b ELSE a
\* JavaScript's a ?? b for token sequences
CoalesceText(a, b) == IF a = NullText THEN b ELSE a
\* JavaScript's a ?? b for numbers
CoalesceNum(a, b) == IF a = NullNum THEN b ELSE a
\* JavaScript truthiness of a nullable string: null and "" are falsy
TruthyText(s) == s # NullText /\ s # <<>>

RECURSIVE SetToSeq(_)
SetToSeq(S) ==
    IF S = {} THEN <<>>
    ELSE LET m == CHOOSE x \in S : \A y \in S : x <= y
         IN <<m>> \o SetToSeq(S \ {m})

SeqToSet(s) == {s[i] : i \in 1..Len(s)}

(***************************************************************************)
(* Bounds                                                                  *)
(***************************************************************************)
NumMail == 2        \* mail_pending rows
MaxReqs == 2        \* mail API requests in one run
MaxFaults == 2      \* failing external calls (Dropbox, database) in one run

MailIds == 1..NumMail
ReqIds == 1..MaxReqs
Users == {"u1", "u2"}
OverrideTypes == {NULL, "keiyakusho"}

(***************************************************************************)
(* Dates                                                                   *)
(***************************************************************************)
\* A JavaScript Date seen through getFullYear() and getMonth():
\* [year, monthIndex] with monthIndex 0..11 in the local calendar.
NowDates == {[year |-> 2026, monthIndex |-> 2]}

\* A timestamptz column: a UTC calendar day and hour.
\* The database clock (default now()) when the approve handler inserts.
InsertClock == [y |-> 2026, m |-> 3, d |-> 10, h |-> 3]

\* Gregorian calendar
IsLeapYear(y) == (y % 4 = 0 /\ y % 100 # 0) \/ y % 400 = 0
DaysInMonth(y, m) ==
    IF m = 2 THEN (IF IsLeapYear(y) THEN 29 ELSE 28)
    ELSE IF m \in {4, 6, 9, 11} THEN 30 ELSE 31

PrevDay(t) ==
    IF t.d > 1 THEN [y |-> t.y, m |-> t.m, d |-> t.d - 1]
    ELSE IF t.m > 1 THEN [y |-> t.y, m |-> t.m - 1, d |-> DaysInMonth(t.y, t.m - 1)]
    ELSE [y |-> t.y - 1, m |-> 12, d |-> 31]
NextDay(t) ==
    IF t.d < DaysInMonth(t.y, t.m) THEN [y |-> t.y, m |-> t.m, d |-> t.d + 1]
    ELSE IF t.m < 12 THEN [y |-> t.y, m |-> t.m + 1, d |-> 1]
    ELSE [y |-> t.y + 1, m |-> 1, d |-> 1]

\* new Date(s) for a date-only string "YYYY-MM-DD": midnight UTC of that day
DateOnlyToTimestamp(s) == [y |-> s.y, m |-> s.m, d |-> s.d, h |-> 0]

\* The Date object of a UTC timestamp as getFullYear() and getMonth() see
\* it on a server whose local time is UTC + tz hours (-12 <= tz <= 14).
LocalDate(t, tz) ==
    LET hh == t.h + tz
        day == IF hh < 0 THEN PrevDay(t) ELSE IF hh >= 24 THEN NextDay(t)
               ELSE [y |-> t.y, m |-> t.m, d |-> t.d]
    IN [year |-> day.y, monthIndex |-> day.m - 1]

Digit(n) == CASE n = 0 -> "0" [] n = 1 -> "1" [] n = 2 -> "2" [] n = 3 -> "3"
              [] n = 4 -> "4" [] n = 5 -> "5" [] n = 6 -> "6" [] n = 7 -> "7"
              [] n = 8 -> "8" [] n = 9 -> "9"

\* String(n) for n >= 0: the decimal digits, no padding
RECURSIVE NumToString(_)
NumToString(n) ==
    IF n < 10 THEN <<Digit(n)>>
    ELSE NumToString(n \div 10) \o <<Digit(n % 10)>>

IsDigit(c) == c \in {"0", "1", "2", "3", "4", "5", "6", "7", "8", "9"}
DigitVal(c) == CHOOSE n \in 0..9 : Digit(n) = c

\* parseInt(s, 10) for a string of digits
RECURSIVE ParseInt(_)
ParseInt(s) ==
    IF s = <<>> THEN 0
    ELSE ParseInt(SubSeq(s, 1, Len(s) - 1)) * 10 + DigitVal(s[Len(s)])

\* s.padStart(width, "0")
RECURSIVE PadStart(_, _)
PadStart(s, width) == IF Len(s) >= width THEN s ELSE PadStart(<<"0">> \o s, width)

\* A date column assigned from a "YYYY-MM-DD" string; null stays null.
DateColumn(s) ==
    IF s = NullText THEN NullDate
    ELSE [y |-> ParseInt(SubSeq(s, 1, 4)), m |-> ParseInt(SubSeq(s, 6, 7)),
          d |-> ParseInt(SubSeq(s, 9, 10))]

(***************************************************************************)
(* Dropbox wrapper                                                         *)
(***************************************************************************)
\* Mutant of GetDocumentPath: the month is not padded.
GetDocumentPath_NoPad(type, fileName, date, status) ==
    LET base == <<"/", "keiri_shorui">>
        year == NumToString(date.year) \o <<"nen">>
        month == NumToString(date.monthIndex + 1) \o <<"gatsu">>
    IN IF type = "keiyakusho"
       THEN base \o <<"/", "keiyakusho", "/">> \o fileName
       ELSE base \o <<"/", type, "/">> \o year \o <<"/">> \o month
                 \o <<"/", IF status = NULL THEN "mishori" ELSE status, "/">>
                 \o fileName

\* Mutant of GetDocumentPath: contracts are filed by month like the rest.
GetDocumentPath_ContractMonthly(type, fileName, date, status) ==
    LET base == <<"/", "keiri_shorui">>
        year == NumToString(date.year) \o <<"nen">>
        month == PadStart(NumToString(date.monthIndex + 1), 2) \o <<"gatsu">>
    IN base \o <<"/", type, "/">> \o year \o <<"/">> \o month
            \o <<"/", IF status = NULL THEN "mishori" ELSE status, "/">> \o fileName

\* getDocumentPath(type, fileName, date, status), status NULL when the
\* caller leaves it out (the default parameter is the unprocessed status)
GetDocumentPath(type, fileName, date, status) ==
    LET base == <<"/", "keiri_shorui">>
        year == NumToString(date.year) \o <<"nen">>
        month == PadStart(NumToString(date.monthIndex + 1), 2) \o <<"gatsu">>
    IN IF type = "keiyakusho"
       THEN base \o <<"/", "keiyakusho", "/">> \o fileName
       ELSE base \o <<"/", type, "/">> \o year \o <<"/">> \o month
                 \o <<"/", IF status = NULL THEN "mishori" ELSE status, "/">>
                 \o fileName

\* moveFile(fromPath, toPath): the outcomes.  The Dropbox call can always
\* fail (network, rate limit, token); it can succeed only when the source
\* holds a file and the destination is free (autorename: false).
\* A success returns the destination path.
MoveCanSucceed(fs, fromPath, toPath) == fromPath \in fs /\ toPath \notin fs
MoveOutcomes(fs, fromPath, toPath) ==
    {"failed"} \cup (IF MoveCanSucceed(fs, fromPath, toPath) THEN {"moved"} ELSE {})
FilesAfterMove(fs, fromPath, toPath) == (fs \ {fromPath}) \cup {toPath}

(***************************************************************************)
(* Gemini wrapper: the results analyzeDocument can return                  *)
(***************************************************************************)
FALLBACK_RESULT ==
    [vendor_name |-> <<>>, amount |-> NullNum, issue_date |-> NullText,
     due_date |-> NullText, description |-> NullText, type |-> NULL,
     confidence |-> 0]

\* analyzeDocument never throws: it returns the parsed record or the
\* fallback.  The re-analysis of the approve dialog returns one of these.
ReanalysisResults ==
    {FALLBACK_RESULT,
     [vendor_name |-> <<"v">>, amount |-> 100,
      issue_date |-> <<"2", "0", "2", "6", "-", "0", "3", "-", "1", "5">>,
      due_date |-> NullText,
      description |-> <<"d">>, type |-> "nohinsho", confidence |-> 1],
     [vendor_name |-> <<>>, amount |-> 0, issue_date |-> NullText,
      due_date |-> <<"2", "0", "2", "6", "-", "0", "4", "-", "3", "0">>,
      description |-> <<"d">>, type |-> NULL, confidence |-> 1]}

(***************************************************************************)
(* Mail approve / reject API (POST)                                        *)
(***************************************************************************)
FileNameOf(i) == <<"f", NumToString(i)[1]>>
TempPathOf(i) == <<"/", "keiri_shorui", "/", "ichiji_hozon", "/">> \o FileNameOf(i)

\* The variables the mail API does not touch.
MailFrame == UNCHANGED <<patchResp, exportResp, ocrIn, ocrOut, ruleIn, ruleOut,
                         document_types, settingsResp, pathIn, pathOut,
                         user_roles, roleReqs, mailbox, fetchReq>>

\* A request slot.  While the handler runs it holds the handler's locals
\* (user, ids, type, payload = base64 && mimeType, pendingItems, the loop
\* position k, ocrResult, docType, movedPath, approvedDocs); once the
\* response is sent it keeps the response (status, count) and, as a record
\* of what the handler did, approvedDocs and the sets moveFailed,
\* insertFailed (item ids) and inserted (positions in documents).
IdleReq ==
    [pc |-> "idle", user |-> NULL, action |-> NULL, ids |-> {}, type |-> NULL,
     payload |-> FALSE, items |-> <<>>, k |-> 0, ocr |-> <<>>, docType |-> NULL,
     movedPath |-> NullText, approvedDocs |-> <<>>,
     moveFailed |-> {}, insertFailed |-> {}, inserted |-> {},
     status |-> 0, count |-> 0]

\* The response is sent: the locals are gone.
Respond(q, status, count) ==
    [IdleReq EXCEPT !.pc = "done", !.action = q.action, !.status = status,
                    !.count = count, !.approvedDocs = q.approvedDocs,
                    !.moveFailed = q.moveFailed, !.insertFailed = q.insertFailed,
                    !.inserted = q.inserted]

\* Slots are taken in order (slot r only after slot r - 1), which fixes the
\* numbering of the requests and nothing else.
CanStart(r) == reqs[r].pc = "idle" /\ (IF r = 1 THEN TRUE ELSE reqs[r - 1].pc # "idle")

\* supabase.auth.getUser() yields no user: 401
PostUnauthenticated(r) ==
    /\ CanStart(r)
    /\ reqs' = [reqs EXCEPT ![r] = Respond(@, 401, 0)]
    /\ UNCHANGED <<mail_pending, documents, files, faults>>
    /\ MailFrame

\* !action || !ids || ids.length === 0, or an action that is neither
\* "approve" nor "reject": 400
PostInvalid(r, action, ids) ==
    /\ CanStart(r)
    /\ action = NULL \/ ids = {} \/ action \notin {"approve", "reject"}
    /\ reqs' = [reqs EXCEPT ![r] = Respond(@, 400, 0)]
    /\ UNCHANGED <<mail_pending, documents, files, faults>>
    /\ MailFrame

\* Mutant of RejectTargets: the update is not restricted to the caller.
RejectTargets_AnyOwner(mp, ids, u) == ids

\* The rows the update ... .in("id", ids).eq("user_id", u) of the reject
\* branch writes.
RejectTargets(mp, ids, u) == {i \in ids : mp[i].user_id = u}

\* The record of a finished reject request: the response, and the caller
\* and ids the request came with.
RejectRespond(u, ids, status, count) ==
    [Respond([IdleReq EXCEPT !.action = "reject"], status, count)
        EXCEPT !.user = u, !.ids = ids]

\* action === "reject": one update statement, then the response
PostReject(r, u, ids, dbError) ==
    /\ CanStart(r)
    /\ ids # {}
    /\ dbError => faults < MaxFaults
    /\ IF dbError
       THEN /\ reqs' = [reqs EXCEPT ![r] = RejectRespond(u, ids, 500, 0)]
            /\ faults' = faults + 1
            /\ UNCHANGED mail_pending
       ELSE /\ mail_pending' =
                 [i \in MailIds |->
                    IF i \in RejectTargets(mail_pending, ids, u)
                    THEN [mail_pending[i] EXCEPT !.status = "rejected"]
                    ELSE mail_pending[i]]
            /\ reqs' = [reqs EXCEPT ![r] = RejectRespond(u, ids, 200, Cardinality(ids))]
            /\ UNCHANGED faults
    /\ UNCHANGED <<documents, files>>
    /\ MailFrame

\* The rows the select of the approve branch returns.
ApproveSelection(mp, ids, u) ==
    {i \in ids : mp[i].user_id = u /\ mp[i].status = "pending"}

\* action === "approve": the select; 404 when it fails or returns no row
PostApproveSelect(r, u, ids, type, payload, fetchError) ==
    /\ CanStart(r)
    /\ ids # {}
    /\ fetchError => faults < MaxFaults
    /\ LET sel == ApproveSelection(mail_pending, ids, u)
           rows == [n \in 1..Cardinality(sel) |-> mail_pending[SetToSeq(sel)[n]]]
       IN IF fetchError \/ sel = {}
          THEN reqs' = [reqs EXCEPT ![r] =
                          Respond([@ EXCEPT !.action = "approve"], 404, 0)]
          ELSE reqs' = [reqs EXCEPT ![r] = [@ EXCEPT !.pc = "move", !.user = u,
                          !.action = "approve", !.ids = ids, !.type = type,
                          !.payload = payload, !.items = rows, !.k = 1]]
    /\ faults' = IF fetchError THEN faults + 1 ELSE faults
    /\ UNCHANGED <<mail_pending, documents, files>>
    /\ MailFrame

\* Mutant of DocTypeOf: the re-analysis type beats the explicit override.
DocTypeOf_OcrFirst(type, ocr, item) ==
    IF ocr = <<>>
    THEN Coalesce(type, Coalesce(item.ai_type, "seikyusho"))
    ELSE Coalesce(ocr[1].type, Coalesce(type, Coalesce(item.ai_type, "seikyusho")))

\* let docType = type ?? item.ai_type ?? "seikyusho", replaced after a
\* re-analysis by type ?? ocrResult.type ?? item.ai_type ?? "seikyusho"
DocTypeOf(type, ocr, item) ==
    IF ocr = <<>>
    THEN Coalesce(type, Coalesce(item.ai_type, "seikyusho"))
    ELSE Coalesce(type, Coalesce(ocr[1].type, Coalesce(item.ai_type, "seikyusho")))

\* The position after item k of the loop: the next item, or the final update.
AfterItem(q) ==
    IF q.k < Len(q.items)
    THEN [q EXCEPT !.k = q.k + 1, !.pc = "move"]
    ELSE [q EXCEPT !.pc = "update"]

\* An item whose temp_path is null or empty is skipped by the loop body.
ApproveSkip(r) ==
    /\ reqs[r].pc = "move"
    /\ ~TruthyText(reqs[r].items[reqs[r].k].temp_path)
    /\ reqs' = [reqs EXCEPT ![r] = AfterItem(@)]
    /\ UNCHANGED <<mail_pending, documents, files, faults>>
    /\ MailFrame

\* Mutant of MovedPathOf: the catch block does not fall back to temp_path.
MovedPathOf_NoFallback(outcome, newPath, item) == newPath

\* The path the document of item k is stored under: what moveFile returned,
\* or temp_path when moveFile threw.
MovedPathOf(outcome, newPath, item) ==
    IF outcome = "moved" THEN newPath ELSE item.temp_path

\* The re-analysis (when base64 and mimeType were sent), the destination
\* path and the Dropbox move of item k.
ApproveMove(r, result, now, outcome) ==
    /\ reqs[r].pc = "move"
    /\ LET q == reqs[r]
           item == q.items[q.k]
           ocr == IF q.payload THEN <<result>> ELSE <<>>
           docType == DocTypeOf(q.type, ocr, item)
           newPath == GetDocumentPath(docType, item.file_name, now, "mishori")
       IN /\ TruthyText(item.temp_path)
          /\ q.payload \/ result = FALLBACK_RESULT
          /\ outcome \in MoveOutcomes(files, item.temp_path, newPath)
          /\ outcome = "failed" => faults < MaxFaults
          /\ files' = IF outcome = "moved"
                      THEN FilesAfterMove(files, item.temp_path, newPath)
                      ELSE files
          /\ faults' = IF outcome = "failed" THEN faults + 1 ELSE faults
          /\ reqs' = [reqs EXCEPT ![r] = [q EXCEPT !.pc = "insert",
                         !.ocr = ocr, !.docType = docType,
                         !.movedPath = MovedPathOf(outcome, newPath, item),
                         !.moveFailed = IF outcome = "failed"
                                        THEN @ \cup {item.id} ELSE @]]
    /\ UNCHANGED <<mail_pending, documents>>
    /\ MailFrame

\* Mutant of ApprovedDocument: vendor_name falls back with ?? instead of ||.
ApprovedDocument_VendorNullish(q, item) ==
    LET has == q.ocr # <<>>
    IN [type |-> q.docType,
        vendor_name |-> IF has THEN q.ocr[1].vendor_name ELSE item.sender,
        amount |-> IF has THEN q.ocr[1].amount ELSE NullNum,
        issue_date |-> IF has THEN DateColumn(q.ocr[1].issue_date) ELSE NullDate,
        due_date |-> IF has THEN DateColumn(q.ocr[1].due_date) ELSE NullDate,
        description |-> IF has /\ q.ocr[1].description # NullText
                        THEN q.ocr[1].description
                        ELSE <<"mail_tenpu:">> \o item.file_name,
        input_method |-> "email",
        status |-> "mishori",
        dropbox_path |-> q.movedPath,
        user_id |-> q.user,
        created_at |-> InsertClock,
        mail_id |-> item.id]

\* The row the approve loop inserts into documents for item.
\* mail_id records which mail item the row was created for.
ApprovedDocument(q, item) ==
    LET has == q.ocr # <<>>
    IN [type |-> q.docType,
        vendor_name |-> IF has /\ q.ocr[1].vendor_name # <<>>
                        THEN q.ocr[1].vendor_name ELSE item.sender,
        amount |-> IF has THEN q.ocr[1].amount ELSE NullNum,
        issue_date |-> IF has THEN DateColumn(q.ocr[1].issue_date) ELSE NullDate,
        due_date |-> IF has THEN DateColumn(q.ocr[1].due_date) ELSE NullDate,
        description |-> IF has /\ q.ocr[1].description # NullText
                        THEN q.ocr[1].description
                        ELSE <<"mail_tenpu:">> \o item.file_name,
        input_method |-> "email",
        status |-> "mishori",
        dropbox_path |-> q.movedPath,
        user_id |-> q.user,
        created_at |-> InsertClock,
        mail_id |-> item.id]

\* Mutant of ApprovedDocsAfter: the item is pushed although the insert failed.
ApprovedDocsAfter_NoContinue(approvedDocs, item, insertError) ==
    Append(approvedDocs, item.id)

\* approvedDocs after the insert of item: pushed unless insertError
ApprovedDocsAfter(approvedDocs, item, insertError) ==
    IF insertError THEN approvedDocs ELSE Append(approvedDocs, item.id)

\* The insert into documents; on insertError the item is skipped (continue).
ApproveInsert(r, insertError) ==
    /\ reqs[r].pc = "insert"
    /\ insertError => faults < MaxFaults
    /\ LET q == reqs[r]
           item == q.items[q.k]
           next == [q EXCEPT !.ocr = <<>>, !.docType = NULL, !.movedPath = NullText,
                      !.approvedDocs = ApprovedDocsAfter(@, item, insertError),
                      !.insertFailed = IF insertError THEN @ \cup {item.id} ELSE @,
                      !.inserted = IF insertError THEN @
                                   ELSE @ \cup {Len(documents) + 1}]
       IN /\ documents' = IF insertError THEN documents
                          ELSE Append(documents, ApprovedDocument(q, item))
          /\ reqs' = [reqs EXCEPT ![r] = AfterItem(next)]
    /\ faults' = IF insertError THEN faults + 1 ELSE faults
    /\ UNCHANGED <<mail_pending, files>>
    /\ MailFrame

\* The rows the final update ... .in("id", approvedDocs ids).eq("user_id", u)
\* writes.
ApproveUpdateTargets(mp, approvedIds, u) ==
    {i \in approvedIds : mp[i].user_id = u}

\* After the loop: the status update of the approved items (when there is
\* one) and the response with count = approvedDocs.length.
ApproveUpdate(r) ==
    /\ reqs[r].pc = "update"
    /\ LET q == reqs[r]
           ids == SeqToSet(q.approvedDocs)
       IN /\ mail_pending' =
               IF Len(q.approvedDocs) > 0
               THEN [i \in MailIds |->
                       IF i \in ApproveUpdateTargets(mail_pending, ids, q.user)
                       THEN [mail_pending[i] EXCEPT !.status = "approved"]
                       ELSE mail_pending[i]]
               ELSE mail_pending
          /\ reqs' = [reqs EXCEPT ![r] = Respond(q, 200, Len(q.approvedDocs))]
    /\ UNCHANGED <<documents, files, faults>>
    /\ MailFrame

\* The tables before any request: every row pending, every temporary file
\* in place.  Rows alternate between no AI guess and the guess "ryoshusho";
\* the last row may lack a temp_path and may belong to u2.
InitMail ==
    /\ \E noPath \in BOOLEAN, owner \in Users :
         mail_pending =
           [i \in MailIds |->
              [id |-> i, file_name |-> FileNameOf(i), sender |-> <<"s">>,
               ai_type |-> IF i % 2 = 1 THEN NULL ELSE "ryoshusho",
               temp_path |-> IF i = NumMail /\ noPath THEN NullText ELSE TempPathOf(i),
               status |-> "pending",
               user_id |-> IF i = NumMail THEN owner ELSE "u1"]]
    /\ documents = <<>>
    /\ files = {mail_pending[i].temp_path : i \in MailIds} \ {NullText}
    /\ reqs = [r \in ReqIds |-> IdleReq]
    /\ faults = 0
    /\ patchResp = 0 /\ exportResp = 0 /\ ocrIn = 0 /\ ocrOut = 0
    /\ ruleIn = 0 /\ ruleOut = 0
    /\ document_types = 0 /\ settingsResp = 0 /\ pathIn = 0 /\ pathOut = 0
    /\ user_roles = 0 /\ roleReqs = 0 /\ mailbox = 0 /\ fetchReq = 0

NextMail ==
    \E r \in ReqIds :
        \/ PostUnauthenticated(r)
        \/ \E action \in {NULL, "approve", "delete"}, ids \in SUBSET MailIds :
              PostInvalid(r, action, ids)
        \/ \E u \in Users, ids \in SUBSET MailIds, dbError \in BOOLEAN :
              PostReject(r, u, ids, dbError)
        \/ \E u \in Users, ids \in SUBSET MailIds, type \in OverrideTypes,
              payload \in BOOLEAN, fetchError \in BOOLEAN :
              PostApproveSelect(r, u, ids, type, payload, fetchError)
        \/ ApproveSkip(r)
        \/ \E result \in ReanalysisResults, now \in NowDates, outcome \in {"moved", "failed"} :
              ApproveMove(r, result, now, outcome)
        \/ \E insertError \in BOOLEAN : ApproveInsert(r, insertError)
        \/ ApproveUpdate(r)

SpecMail == InitMail /\ [][NextMail]_vars

(***************************************************************************)
(* Claims about the mail approve / reject API (under SpecMail)             *)
(***************************************************************************)
\* The step in which request r runs its final update and responds.
UpdateStep(r) == reqs[r].pc = "update" /\ reqs'[r].pc = "done"
\* The step in which request r runs the insert of its current item.
InsertStep(r) == reqs[r].pc = "insert" /\ reqs'[r].pc # "insert"

\* The items of r's batch that reach the insert: those with a temp_path.
BatchIds(q) == {q.items[n].id : n \in {m \in 1..Len(q.items) : TruthyText(q.items[m].temp_path)}}

\* C1: once a mail item's status is approved or rejected it never changes
\* again, whatever Approve and Reject requests follow or interleave.
C1_TerminalStatusIsFinal ==
    [][\A i \in MailIds :
          mail_pending[i].status \in {"approved", "rejected"}
             => mail_pending'[i].status = mail_pending[i].status]_vars

C3_ExpectedType(q) ==
    LET item == q.items[q.k]
    IN IF q.type # NULL THEN q.type
       ELSE IF q.payload /\ q.ocr[1].type # NULL THEN q.ocr[1].type
       ELSE IF item.ai_type # NULL THEN item.ai_type
       ELSE "seikyusho"

\* C3: the type of every Document created by Approve follows the priority
\* explicit override > re-analysis type > stored ai_type > default.
C3_TypePriority ==
    [][\A r \in ReqIds :
          (InsertStep(r) /\ Len(documents') = Len(documents) + 1)
             => documents'[Len(documents')].type = C3_ExpectedType(reqs[r])]_vars

\* C3 witness: Documents exist whose type came from the override, from the
\* re-analysis (over a stored ai_type) and from the default.
C3_Witness ==
    \E a, b, c \in 1..Len(documents) :
       /\ documents[a].type = "keiyakusho"
       /\ documents[b].type = "nohinsho"
       /\ mail_pending[documents[b].mail_id].ai_type = "ryoshusho"
       /\ documents[c].type = "seikyusho"
       /\ mail_pending[documents[c].mail_id].ai_type = NULL

C5_CountIsApprovedCount ==
    [][\A r \in ReqIds : UpdateStep(r) =>
          /\ reqs'[r].count =
                Cardinality({i \in MailIds : /\ mail_pending[i].status = "pending"
                                             /\ mail_pending'[i].status = "approved"})
          /\ reqs'[r].count = Cardinality(reqs[r].inserted)
          /\ reqs'[r].count <= Cardinality(reqs[r].ids)]_vars

(***************************************************************************)
(* Documents API: PATCH                                                    *)
(***************************************************************************)
MaxPatches == 1     \* PATCH requests in one run

\* The variables the documents API does not touch.
PatchFrame == UNCHANGED <<mail_pending, reqs, faults, exportResp, ocrIn, ocrOut,
                          ruleIn, ruleOut, document_types, settingsResp,
                          pathIn, pathOut,
                          user_roles, roleReqs, mailbox, fetchReq>>

\* JavaScript truthiness of a string held as atomic text
TruthyAtom(s) == s # NULL /\ s # ""

\* path.split("/").pop(): the tokens after the last "/"
RECURSIVE LastSegment(_)
LastSegment(path) ==
    IF path = <<>> \/ path[Len(path)] = "/" THEN <<>>
    ELSE LastSegment(SubSeq(path, 1, Len(path) - 1)) \o <<path[Len(path)]>>

\* A request body is [has, val]: has is the set of fields the body gives with
\* a usable runtime type, val their values (amount, the dates and description
\* already null when the body gives another type).  The update object has
\* the same shape.
UpdatableFields ==
    {"type", "vendor_name", "amount", "issue_date", "due_date", "description", "status"}

\* const update: DocumentUpdate = {} and the seven assignments
BuildUpdate(body) == [has |-> body.has \cap UpdatableFields, val |-> body.val]

\* The row after .update(update)
ApplyUpdate(row, up) ==
    [row EXCEPT
       !.type = IF "type" \in up.has THEN up.val.type ELSE @,
       !.vendor_name = IF "vendor_name" \in up.has THEN up.val.vendor_name ELSE @,
       !.amount = IF "amount" \in up.has THEN up.val.amount ELSE @,
       !.issue_date = IF "issue_date" \in up.has THEN up.val.issue_date ELSE @,
       !.due_date = IF "due_date" \in up.has THEN up.val.due_date ELSE @,
       !.description = IF "description" \in up.has THEN up.val.description ELSE @,
       !.status = IF "status" \in up.has THEN up.val.status ELSE @,
       !.dropbox_path = IF "dropbox_path" \in up.has THEN up.val.dropbox_path ELSE @]

\* const newStatus = update.status (undefined when not given)
NewStatusOf(up) == IF "status" \in up.has THEN up.val.status ELSE NULL

\* Mutant of StatusMoveWanted: a change of type alone also asks for a move.
StatusMoveWanted_OnTypeChange(existing, up) ==
    /\ \/ TruthyAtom(NewStatusOf(up)) /\ NewStatusOf(up) # existing.status
       \/ "type" \in up.has /\ up.val.type # existing.type
    /\ TruthyText(existing.dropbox_path)

\* if (newStatus && newStatus !== existing.status && existing.dropbox_path)
StatusMoveWanted(existing, up) ==
    /\ TruthyAtom(NewStatusOf(up))
    /\ NewStatusOf(up) # existing.status
    /\ TruthyText(existing.dropbox_path)

\* Mutant of PatchNewType: the requested type is ignored.
PatchNewType_Existing(existing, up) == existing.type

\* const newType = update.type ?? existing.type
PatchNewType(existing, up) ==
    IF "type" \in up.has THEN up.val.type ELSE existing.type

\* new Date(existing.issue_date ?? existing.created_at)
PatchDate(existing, tz) ==
    LocalDate(IF existing.issue_date # NullDate
              THEN DateOnlyToTimestamp(existing.issue_date)
              ELSE existing.created_at, tz)

\* const newPath = getDocumentPath(newType, fileName, date, newStatus)
PatchNewPath(existing, up, tz) ==
    GetDocumentPath(PatchNewType(existing, up), LastSegment(existing.dropbox_path),
                    PatchDate(existing, tz), NewStatusOf(up))

\* Mutant of UpdateAfterMove: dropbox_path is set before the move is awaited.
UpdateAfterMove_Eager(up, outcome, newPath) ==
    [has |-> up.has \cup {"dropbox_path"},
     val |-> [up.val EXCEPT !.dropbox_path = newPath]]

\* update.dropbox_path = movedPath, reached only when moveFile returned
UpdateAfterMove(up, outcome, newPath) ==
    IF outcome = "moved"
    THEN [has |-> up.has \cup {"dropbox_path"},
          val |-> [up.val EXCEPT !.dropbox_path = newPath]]
    ELSE up

\* A documents row with every column null: the data of an error response.
NoRow ==
    [type |-> NULL, vendor_name |-> NullText, amount |-> NullNum,
     issue_date |-> NullDate, due_date |-> NullDate, description |-> NullText,
     input_method |-> NULL, status |-> NULL, dropbox_path |-> NullText,
     user_id |-> NULL, created_at |-> [y |-> 0, m |-> 0, d |-> 0, h |-> 0],
     mail_id |-> 0]

NoBody == [has |-> {}, val |-> [type |-> NULL, vendor_name |-> NullText,
              amount |-> NullNum, issue_date |-> NullDate, due_date |-> NullDate,
              description |-> NullText, status |-> NULL, dropbox_path |-> NullText]]

\* An error response: nothing was written.
PatchError(status) ==
    /\ patchResp' = [patchResp EXCEPT !.n = @ + 1, !.status = status, !.id = 0,
                       !.data = NoRow, !.before = NoRow, !.body = NoBody,
                       !.move = "none", !.dbError = FALSE]
    /\ UNCHANGED <<documents, files>>

\* No session: 401
PatchUnauthenticated ==
    /\ patchResp.n < MaxPatches
    /\ PatchError(401)
    /\ PatchFrame

\* No id parameter: 400
PatchNoId ==
    /\ patchResp.n < MaxPatches
    /\ PatchError(400)
    /\ PatchFrame

\* The select by id and user_id finds no row (or fails): 404
PatchNotFound(u, id) ==
    /\ patchResp.n < MaxPatches
    /\ ~(id \in 1..Len(documents) /\ documents[id].user_id = u)
    /\ PatchError(404)
    /\ PatchFrame

\* The body gives no updatable field: 400
PatchNoUpdates(u, id, body) ==
    /\ patchResp.n < MaxPatches
    /\ id \in 1..Len(documents) /\ documents[id].user_id = u
    /\ BuildUpdate(body).has = {}
    /\ PatchError(400)
    /\ PatchFrame

\* The handler from the move decision to the response.  outcome is "none"
\* when moveFile is not called, else what moveFile did.
PatchUpdate(u, id, body, outcome, dbError) ==
    /\ patchResp.n < MaxPatches
    /\ id \in 1..Len(documents) /\ documents[id].user_id = u
    /\ BuildUpdate(body).has # {}
    /\ LET existing == documents[id]
           update == BuildUpdate(body)
           newPath == PatchNewPath(existing, update, patchResp.tz)
           called == StatusMoveWanted(existing, update) /\ newPath # existing.dropbox_path
           final == IF called THEN UpdateAfterMove(update, outcome, newPath) ELSE update
       IN /\ IF called
             THEN outcome \in MoveOutcomes(files, existing.dropbox_path, newPath)
             ELSE outcome = "none"
          /\ files' = IF outcome = "moved"
                      THEN FilesAfterMove(files, existing.dropbox_path, newPath)
                      ELSE files
          /\ documents' = IF dbError THEN documents
                          ELSE [documents EXCEPT ![id] = ApplyUpdate(existing, final)]
          /\ patchResp' = [patchResp EXCEPT !.n = @ + 1,
                             !.status = IF dbError THEN 500 ELSE 200,
                             !.id = id,
                             !.data = IF dbError THEN NoRow ELSE ApplyUpdate(existing, final),
                             !.before = existing, !.body = body,
                             !.move = outcome, !.dbError = dbError]
    /\ PatchFrame

\* The bodies sent: type, status and vendor_name each given or not.
PatchBodies ==
    {[has |-> {f \in {"type", "status", "vendor_name"} :
                 \/ f = "type" /\ t # NULL
                 \/ f = "status" /\ s # NULL
                 \/ f = "vendor_name" /\ v # NullText},
      val |-> [type |-> t, vendor_name |-> v, amount |-> NullNum,
               issue_date |-> NullDate, due_date |-> NullDate,
               description |-> NullText, status |-> s, dropbox_path |-> NullText]] :
       t \in {NULL, "ryoshusho", "keiyakusho"}, s \in {NULL, "mishori", "shorizumi"},
       v \in {NullText, <<"w">>}}

\* The server's local time is UTC + tz hours.
TzOffsets == {-5, 9}

\* The caller of the PATCH requests.
PatchUser == "u1"

\* Row 1 belongs to u1 and varies; row 2 belongs to u2.  The stored path of
\* row 1 is null, the temporary intake path, or the path getDocumentPath
\* gave the row when it was filed under its status.
InitPatch ==
    /\ \E t \in {"seikyusho", "keiyakusho"}, hasIssue \in BOOLEAN, filed \in 0..2,
          st \in {"mishori", "shorizumi"} :
         LET p == CASE filed = 0 -> NullText
                    [] filed = 1 -> TempPathOf(1)
                    [] filed = 2 -> GetDocumentPath(t, FileNameOf(1),
                                      [year |-> 2026, monthIndex |-> 2], st)
         IN
         documents =
           <<[type |-> t, vendor_name |-> <<"s">>, amount |-> NullNum,
              issue_date |-> IF hasIssue THEN [y |-> 2026, m |-> 3, d |-> 1] ELSE NullDate,
              due_date |-> NullDate, description |-> NullText,
              input_method |-> "email", status |-> st, dropbox_path |-> p,
              user_id |-> "u1", created_at |-> [y |-> 2025, m |-> 12, d |-> 31, h |-> 20],
              mail_id |-> 1],
             [type |-> "ryoshusho", vendor_name |-> <<"s">>, amount |-> 100,
              issue_date |-> NullDate, due_date |-> NullDate, description |-> NullText,
              input_method |-> "upload", status |-> "mishori",
              dropbox_path |-> TempPathOf(2),
              user_id |-> "u2", created_at |-> InsertClock, mail_id |-> 0]>>
    /\ files = {documents[i].dropbox_path : i \in 1..Len(documents)} \ {NullText}
    /\ \E tz \in TzOffsets :
         patchResp = [tz |-> tz, n |-> 0, status |-> 0, id |-> 0, data |-> NoRow,
                      before |-> NoRow, body |-> NoBody, move |-> "none",
                      dbError |-> FALSE]
    /\ mail_pending = 0 /\ reqs = 0 /\ faults = 0 /\ exportResp = 0
    /\ ocrIn = 0 /\ ocrOut = 0 /\ ruleIn = 0 /\ ruleOut = 0
    /\ document_types = 0 /\ settingsResp = 0 /\ pathIn = 0 /\ pathOut = 0
    /\ user_roles = 0 /\ roleReqs = 0 /\ mailbox = 0 /\ fetchReq = 0

NextPatch ==
    \/ PatchUnauthenticated
    \/ PatchNoId
    \/ \E id \in 1..3 : PatchNotFound(PatchUser, id)
    \/ \E id \in 1..2, body \in PatchBodies : PatchNoUpdates(PatchUser, id, body)
    \/ \E id \in 1..2, body \in PatchBodies,
          outcome \in {"none", "moved", "failed"}, dbError \in BOOLEAN :
          PatchUpdate(PatchUser, id, body, outcome, dbError)

SpecPatch == InitPatch /\ [][NextPatch]_vars

(***************************************************************************)
(* Documents API: the claims                                               *)
(***************************************************************************)
\* The last PATCH asked for a status other than the row's.
PatchChangesStatus ==
    /\ patchResp.id # 0
    /\ "status" \in patchResp.body.has
    /\ patchResp.body.val.status # patchResp.before.status

\* The fields of the returned record other than dropbox_path are the
\* requested values where the body gave them and the old values elsewhere.
PatchOtherFieldsApplied ==
    LET b == patchResp.body
        old == patchResp.before
        new == patchResp.data
    IN /\ new.type = IF "type" \in b.has THEN b.val.type ELSE old.type
       /\ new.vendor_name = IF "vendor_name" \in b.has THEN b.val.vendor_name
                            ELSE old.vendor_name
       /\ new.status = IF "status" \in b.has THEN b.val.status ELSE old.status
       /\ new.amount = old.amount /\ new.issue_date = old.issue_date
       /\ new.due_date = old.due_date /\ new.description = old.description
       /\ new.user_id = old.user_id /\ new.created_at = old.created_at

\* C6: when a PATCH changes the status and the storage move throws, the
\* database update still happens: unless the update itself fails the
\* response is the stored record, it has the new status and the other
\* requested changes, and its path is the old path.
C6_MoveFailureKeepsOldPath ==
    (PatchChangesStatus /\ patchResp.move = "failed" /\ ~patchResp.dbError) =>
        /\ patchResp.status = 200
        /\ documents[patchResp.id] = patchResp.data
        /\ patchResp.data.status = patchResp.body.val.status
        /\ PatchOtherFieldsApplied
        /\ patchResp.data.dropbox_path = patchResp.before.dropbox_path

C6_Witness ==
    /\ PatchChangesStatus /\ patchResp.move = "failed" /\ ~patchResp.dbError
    /\ patchResp.body.has = {"type", "status", "vendor_name"}
    /\ patchResp.data.status = "shorizumi"
    /\ patchResp.data.dropbox_path = TempPathOf(1)

\* C7: when a PATCH changes the status, the stored path is non-null and the
\* move succeeds, the path stored and returned is getDocumentPath(the
\* requested type if given else the existing one, the last segment of the
\* existing path, the issue date if present else the creation time, the new
\* status), and it is written together with the other changed fields.
C7_MoveSuccessStoresBuiltPath ==
    (PatchChangesStatus /\ patchResp.before.dropbox_path # NullText
       /\ patchResp.move = "moved" /\ ~patchResp.dbError) =>
        LET b == patchResp.body
            old == patchResp.before
            when == IF old.issue_date # NullDate
                    THEN DateOnlyToTimestamp(old.issue_date) ELSE old.created_at
            built == GetDocumentPath(IF "type" \in b.has THEN b.val.type ELSE old.type,
                                     LastSegment(old.dropbox_path),
                                     LocalDate(when, patchResp.tz), b.val.status)
        IN /\ patchResp.status = 200
           /\ patchResp.data.dropbox_path = built
           /\ documents[patchResp.id] = patchResp.data
           /\ PatchOtherFieldsApplied
           /\ built \in files /\ old.dropbox_path \notin files

C7_Witness ==
    /\ PatchChangesStatus /\ patchResp.move = "moved" /\ ~patchResp.dbError
    /\ "type" \in patchResp.body.has
    /\ patchResp.body.val.type # patchResp.before.type
    /\ patchResp.before.issue_date = NullDate
    /\ patchResp.data.dropbox_path # patchResp.before.dropbox_path
    /\ patchResp.data.dropbox_path =
         <<"/", "keiri_shorui", "/", "ryoshusho", "/", "2", "0", "2", "6", "nen", "/",
           "0", "1", "gatsu", "/", "shorizumi", "/">> \o FileNameOf(1)

(***************************************************************************)
(* Accountant export API: POST /api/accountant                             *)
(* More romaji: "zeirishi_teishutsu" = the accountant folder,              *)
(* "teishutsu_shorui_ichiran_" = the name of the CSV summary,              *)
(* "uriage_kiroku", "seisanki_uriage", "shakai_hokenryo",                  *)
(* "iyakuhin_shiire" = the other default document types.                   *)
(* files holds files only; folders are not tracked.                        *)
(***************************************************************************)
NumDocs == 3        \* documents rows in the export runs
MaxExports == 1     \* export requests in one run

\* The variables the accountant API does not touch.
ExportFrame == UNCHANGED <<mail_pending, reqs, faults, patchResp, ocrIn, ocrOut,
                           ruleIn, ruleOut, document_types, settingsResp,
                          pathIn, pathOut,
                           user_roles, roleReqs, mailbox, fetchReq>>

DEFAULT_DOC_TYPES ==
    <<"seikyusho", "ryoshusho", "uriage_kiroku", "seisanki_uriage",
      "shakai_hokenryo", "iyakuhin_shiire">>

\* user_roles, read by getCurrentUserRole: a user without a row is staff.
RoleOf(u) == IF u = "u2" THEN "viewer" ELSE IF u = "u1" THEN "admin" ELSE "staff"

\* Mutant of MatchesYearMonth: the pattern without its end anchor.
MatchesYearMonth_Unanchored(s) ==
    /\ Len(s) >= 7
    /\ \A i \in {1, 2, 3, 4, 6, 7} : IsDigit(s[i])
    /\ s[5] = "-"

\* /^\d{4}-\d{2}$/.test(targetMonth)
MatchesYearMonth(s) ==
    /\ Len(s) = 7
    /\ \A i \in {1, 2, 3, 4, 6, 7} : IsDigit(s[i])
    /\ s[5] = "-"

\* new Date(now.getFullYear(), now.getMonth() - 1, 1)
PrevMonthOf(now) ==
    IF now.monthIndex = 0 THEN [year |-> now.year - 1, monthIndex |-> 11]
    ELSE [year |-> now.year, monthIndex |-> now.monthIndex - 1]

\* body.target_month, or the previous month when it is absent or empty
TargetMonthOf(given, now) ==
    IF TruthyText(given) THEN given
    ELSE LET prev == PrevMonthOf(now)
         IN NumToString(prev.year) \o <<"-">>
              \o PadStart(NumToString(prev.monthIndex + 1), 2)

YearStrOf(targetMonth) == SubSeq(targetMonth, 1, 4)
MonthStrOf(targetMonth) == SubSeq(targetMonth, 6, 7)

\* body.doc_types ?? [], then the stored setting, then the default list
ResolveDocTypes(given, setting) ==
    LET docTypes == CoalesceText(given, <<>>)
    IN IF Len(docTypes) # 0 THEN docTypes
       ELSE IF setting # NullText THEN setting
       ELSE DEFAULT_DOC_TYPES

\* A date as the number the comparison of two dates goes by
DateKey(d) == d.y * 10000 + d.m * 100 + d.d

\* The month is one the database accepts in a date literal.
DateRangeValid(targetMonth) == ParseInt(MonthStrOf(targetMonth)) \in 1..12

DateFromOf(targetMonth) ==
    [y |-> ParseInt(YearStrOf(targetMonth)), m |-> ParseInt(MonthStrOf(targetMonth)),
     d |-> 1]
\* Mutant of LastDayOf: every month has 31 days.
LastDayOf_ThirtyOne(year, month) == 31

\* new Date(year, month, 0).getDate(): day 0 of month index month, which is
\* the last day of the month before it; an index outside 0..11 carries
\* into the year.
LastDayOf(year, month) ==
    DaysInMonth(year + ((month - 1) \div 12), ((month - 1) % 12) + 1)

\* dateTo: year, month and last day as the strings of the request give them
DateToOf(targetMonth) ==
    LET year == ParseInt(YearStrOf(targetMonth))
        month == ParseInt(MonthStrOf(targetMonth))
    IN [y |-> year, m |-> month, d |-> LastDayOf(year, month)]

\* The collation order of the type column (.order("type")).
TypeRank(t) ==
    CASE t = "keiyakusho" -> 1 [] t = "seikyusho" -> 2 [] t = "ryoshusho" -> 3
      [] OTHER -> 4

\* Row i comes before row j in .order("type").order("issue_date")
RowBefore(i, j) ==
    LET a == documents[i]
        b == documents[j]
    IN \/ TypeRank(a.type) < TypeRank(b.type)
       \/ TypeRank(a.type) = TypeRank(b.type)
            /\ DateKey(a.issue_date) < DateKey(b.issue_date)
       \/ TypeRank(a.type) = TypeRank(b.type)
            /\ DateKey(a.issue_date) = DateKey(b.issue_date) /\ i < j

RECURSIVE SortRows(_)
SortRows(S) ==
    IF S = {} THEN <<>>
    ELSE LET first == CHOOSE i \in S : \A j \in S \ {i} : RowBefore(i, j)
         IN <<first>> \o SortRows(S \ {first})

\* createClient(): the client of the request, which acts for the user of
\* the session the request carries (NULL without a session).  auth.uid() of
\* its queries is that user.
CreateClient(session) == [uid |-> session]

\* Mutant of RlsVisible: row level security is not in force on the table.
RlsVisible_Off(row, uid) == TRUE

\* The policy "for all using (auth.uid() = user_id)": the client sees the
\* rows of its user and no row without a user.
RlsVisible(row, uid) == uid # NULL /\ row.user_id = uid

\* The rows the select returns to user u, as row numbers in query order:
\* the rows the row level security policy shows the user, with a type of
\* the list and an issue date in the range.
ExportQuery(u, docTypes, dateFrom, dateTo) ==
    SortRows({i \in 1..Len(documents) :
                /\ RlsVisible(documents[i], u)
                /\ documents[i].type \in SeqToSet(docTypes)
                /\ documents[i].issue_date # NullDate
                /\ DateKey(documents[i].issue_date) >= DateKey(dateFrom)
                /\ DateKey(documents[i].issue_date) <= DateKey(dateTo)})

\* groupedDocs: a Map in insertion order, as a sequence of [type, docs]
RECURSIVE GroupDocs(_, _)
GroupDocs(rows, groups) ==
    IF rows = <<>> THEN groups
    ELSE LET type == documents[Head(rows)].type
             at == {k \in 1..Len(groups) : groups[k].type = type}
         IN GroupDocs(Tail(rows),
              IF at = {} THEN Append(groups, [type |-> type, docs |-> <<Head(rows)>>])
              ELSE LET k == CHOOSE k \in at : TRUE
                   IN [groups EXCEPT ![k].docs = Append(@, Head(rows))])

BasePathOf(targetMonth) ==
    <<"/", "keiri_shorui", "/", "zeirishi_teishutsu", "/">>
      \o NumToString(ParseInt(YearStrOf(targetMonth))) \o <<"nen", "/">>
      \o MonthStrOf(targetMonth) \o <<"gatsu">>

CsvPathOf(targetMonth) ==
    BasePathOf(targetMonth) \o <<"/", "teishutsu_shorui_ichiran_">>
      \o MonthStrOf(targetMonth) \o <<"gatsu", ".csv">>

\* copyFile with autorename: true: the path the copy takes
RECURSIVE AutoRename(_, _, _)
AutoRename(fs, toPath, n) ==
    IF n = 0 THEN (IF toPath \notin fs THEN toPath ELSE AutoRename(fs, toPath, 1))
    ELSE IF toPath \o <<"(">> \o NumToString(n) \o <<")">> \notin fs
         THEN toPath \o <<"(">> \o NumToString(n) \o <<")">>
         ELSE AutoRename(fs, toPath, n + 1)

\* Mutant of CopyDocs: the first copy that throws ends the loop.
RECURSIVE CopyDocs_StopOnFailure(_, _, _, _)
CopyDocs_StopOnFailure(docs, typeFolderPath, failing, acc) ==
    IF docs = <<>> THEN acc
    ELSE LET id == Head(docs)
             doc == documents[id]
             fileName == LastSegment(doc.dropbox_path)
             toPath == typeFolderPath \o <<"/">> \o fileName
             copied == TruthyText(doc.dropbox_path) /\ id \notin failing
         IN IF TruthyText(doc.dropbox_path) /\ id \in failing THEN acc
            ELSE CopyDocs_StopOnFailure(Tail(docs), typeFolderPath, failing,
              [fs |-> IF copied THEN acc.fs \cup {AutoRename(acc.fs, toPath, 0)}
                      ELSE acc.fs,
               typeCopied |-> IF copied THEN acc.typeCopied + 1 ELSE acc.typeCopied,
               csvRows |-> IF copied THEN Append(acc.csvRows, id) ELSE acc.csvRows,
               typeAmount |-> acc.typeAmount + CoalesceNum(doc.amount, 0)])

\* Mutant of AmountAfter: the amount counts only when the file was copied.
AmountAfter_CopiedOnly(typeAmount, doc, copied) ==
    IF copied THEN typeAmount + CoalesceNum(doc.amount, 0) ELSE typeAmount

\* typeAmount += doc.amount ?? 0
AmountAfter(typeAmount, doc, copied) == typeAmount + CoalesceNum(doc.amount, 0)

\* The inner loop over the documents of one type.  failing is the set of
\* rows whose copyFile throws; acc holds the Dropbox files, typeAmount,
\* typeCopied and csvRows (the rows copied, in order).
RECURSIVE CopyDocs(_, _, _, _)
CopyDocs(docs, typeFolderPath, failing, acc) ==
    IF docs = <<>> THEN acc
    ELSE LET id == Head(docs)
             doc == documents[id]
             fileName == LastSegment(doc.dropbox_path)
             toPath == typeFolderPath \o <<"/">> \o fileName
             copied == TruthyText(doc.dropbox_path) /\ id \notin failing
         IN CopyDocs(Tail(docs), typeFolderPath, failing,
              [fs |-> IF copied THEN acc.fs \cup {AutoRename(acc.fs, toPath, 0)}
                      ELSE acc.fs,
               typeCopied |-> IF copied THEN acc.typeCopied + 1 ELSE acc.typeCopied,
               csvRows |-> IF copied THEN Append(acc.csvRows, id) ELSE acc.csvRows,
               typeAmount |-> AmountAfter(acc.typeAmount, doc, copied)])

\* The outer loop over the groups, from group g on.  folderFailAt = g + 1
\* makes ensureDropboxFolderExists of group g throw, which ends the handler.
RECURSIVE ExportGroups(_, _, _, _, _, _)
ExportGroups(groups, g, basePath, failing, folderFailAt, acc) ==
    IF g > Len(groups) THEN acc
    ELSE IF folderFailAt = g + 1 THEN [acc EXCEPT !.threw = TRUE]
    ELSE LET type == groups[g].type
             r == CopyDocs(groups[g].docs, basePath \o <<"/", type>>, failing,
                           [fs |-> acc.fs, typeCopied |-> 0, csvRows |-> acc.csvRows,
                            typeAmount |-> 0])
         IN ExportGroups(groups, g + 1, basePath, failing, folderFailAt,
              [fs |-> r.fs,
               results |-> Append(acc.results,
                             [type |-> type, count |-> r.typeCopied,
                              totalAmount |-> r.typeAmount]),
               totalCopied |-> acc.totalCopied + r.typeCopied,
               csvRows |-> r.csvRows, threw |-> FALSE])

\* results.reduce((sum, r) => sum + r.totalAmount, 0)
RECURSIVE SumTotalAmount(_)
SumTotalAmount(results) ==
    IF results = <<>> THEN 0
    ELSE SumTotalAmount(SubSeq(results, 1, Len(results) - 1))
           + results[Len(results)].totalAmount

\* Mutant of CsvWanted: the summary is written for every export with rows.
CsvWanted_Always(csvRows) == TRUE

\* if (csvRows.length > 0)
CsvWanted(csvRows) == Len(csvRows) > 0

\* The summary is in Dropbox: createCsvInDropbox was called and did not throw.
CsvWritten(csvRows, csvFail) == CsvWanted(csvRows) /\ ~csvFail

\* No CSV: no rows, createCsvInDropbox not called
NoCsv == [rows |-> <<>>, tried |-> FALSE, written |-> FALSE]

\* The response, with the rows the query matched and the rows whose copy
\* threw as a record of what the handler did.
\* ops names what the handler issued on the way: "query" the select on
\* documents, "storage" a Dropbox call (folder, copy or CSV upload),
\* "folder_error" an ensureDropboxFolderExists call that threw.  csv holds
\* csvRows (the rows with a CSV line, in order), whether createCsvInDropbox
\* was called and whether the file was written.
ExportRespond(status, u, targetMonth, matched, failing, results, totalCount, totalAmount, csv, ops) ==
    exportResp' = [n |-> exportResp.n + 1, route |-> "manual", status |-> status,
                   user |-> u,
                   matched |-> matched, failing |-> failing, results |-> results,
                   total_count |-> totalCount, total_amount |-> totalAmount,
                   csv |-> csv, processed_users |-> 0, authorization |-> NullText,
                   ops |-> ops, target_month |-> targetMonth,
                   date_from |-> IF "query" \in ops THEN DateFromOf(targetMonth)
                                 ELSE NullDate,
                   date_to |-> IF "query" \in ops THEN DateToOf(targetMonth)
                               ELSE NullDate]

\* Mutant of ExportPermitted: every signed-in user may run the export.
ExportPermitted_Any(u) == TRUE

\* auth?.role === "admin" || auth?.role === "staff"
ExportPermitted(u) == RoleOf(u) \in {"admin", "staff"}

\* No session: 401
ExportUnauthenticated ==
    /\ exportResp.n < MaxExports
    /\ ExportRespond(401, NULL, NullText, <<>>, {}, <<>>, 0, 0, NoCsv, {})
    /\ UNCHANGED <<documents, files>>
    /\ ExportFrame

\* The role is neither admin nor staff: 403
ExportForbidden(u) ==
    /\ exportResp.n < MaxExports
    /\ ~ExportPermitted(u)
    /\ ExportRespond(403, u, NullText, <<>>, {}, <<>>, 0, 0, NoCsv, {})
    /\ UNCHANGED <<documents, files>>
    /\ ExportFrame

\* target_month is not YYYY-MM: 400
ExportBadMonth(u, given, now) ==
    /\ exportResp.n < MaxExports
    /\ ExportPermitted(u)
    /\ ~MatchesYearMonth(TargetMonthOf(given, now))
    /\ ExportRespond(400, u, TargetMonthOf(given, now), <<>>, {}, <<>>, 0, 0, NoCsv, {})
    /\ UNCHANGED <<documents, files>>
    /\ ExportFrame

\* The select fails, as it does for a month outside 01..12: 500
ExportFetchError(u, given, now, dbError) ==
    /\ exportResp.n < MaxExports
    /\ ExportPermitted(u)
    /\ MatchesYearMonth(TargetMonthOf(given, now))
    /\ dbError \/ ~DateRangeValid(TargetMonthOf(given, now))
    /\ ExportRespond(500, u, TargetMonthOf(given, now), <<>>, {}, <<>>, 0, 0, NoCsv,
                     {"query"})
    /\ UNCHANGED <<documents, files>>
    /\ ExportFrame

\* The handler from the select to the response.  failing is the set of rows
\* whose copyFile throws (a row whose file is gone always does); folderFailAt
\* is 0 when no ensureDropboxFolderExists call of the handler throws, 1 when
\* the call for the base folder does, g + 1 when the call for group g does;
\* csvFail is whether createCsvInDropbox throws.
ExportRun(u, given, now, givenTypes, setting) ==
    /\ exportResp.n < MaxExports
    /\ ExportPermitted(u)
    /\ MatchesYearMonth(TargetMonthOf(given, now))
    /\ DateRangeValid(TargetMonthOf(given, now))
    /\ LET targetMonth == TargetMonthOf(given, now)
           docTypes == ResolveDocTypes(givenTypes, setting)
           rows == ExportQuery(CreateClient(u).uid, docTypes, DateFromOf(targetMonth),
                               DateToOf(targetMonth))
       IN IF rows = <<>>
          THEN /\ ExportRespond(200, u, targetMonth, rows, {}, <<>>, 0, 0, NoCsv,
                             {"query"})
               /\ files' = files
          ELSE LET groups == GroupDocs(rows, <<>>)
                   withPath == {i \in SeqToSet(rows) :
                                  TruthyText(documents[i].dropbox_path)}
                   gone == {i \in withPath : documents[i].dropbox_path \notin files}
               IN \E failing \in SUBSET withPath,
                     folderFailAt \in 0..(Len(groups) + 1) :
                    /\ gone \subseteq failing
                    /\ LET start == [fs |-> files, results |-> <<>>, totalCopied |-> 0,
                                     csvRows |-> <<>>, threw |-> FALSE]
                           out == IF folderFailAt = 1 THEN [start EXCEPT !.threw = TRUE]
                                  ELSE ExportGroups(groups, 1, BasePathOf(targetMonth),
                                                    failing, folderFailAt, start)
                       IN IF out.threw
                          THEN /\ ExportRespond(500, u, targetMonth, rows, failing, <<>>, 0,
                                                 0, [NoCsv EXCEPT !.rows = out.csvRows],
                                                 {"query", "storage", "folder_error"})
                               /\ files' = out.fs
                          ELSE \E csvFail \in {FALSE, CsvWanted(out.csvRows)} :
                                 LET csv == CsvWritten(out.csvRows, csvFail)
                                 IN /\ ExportRespond(200, u, targetMonth, rows, failing,
                                                     out.results,
                                                     out.totalCopied,
                                                     SumTotalAmount(out.results),
                                                     [rows |-> out.csvRows,
                                                      tried |-> CsvWanted(out.csvRows),
                                                      written |-> csv],
                                                     {"query", "storage"})
                                    /\ files' = IF csv
                                                THEN out.fs \cup {CsvPathOf(targetMonth)}
                                                ELSE out.fs
    /\ UNCHANGED documents
    /\ ExportFrame

(***************************************************************************)
(* Accountant export cron: GET /api/cron/accountant                        *)
(* settings.key is unique, so the table holds at most one row of a key.    *)
(***************************************************************************)
\* The response of the cron route, with the user whose folder was built and
\* the rows the query matched for that user.
CronRespond(authHeader, status, u, targetMonth, matched, failing, processed, csv, ops) ==
    exportResp' = [n |-> exportResp.n + 1, route |-> "cron", status |-> status,
                   user |-> u, matched |-> matched, failing |-> failing,
                   results |-> <<>>, total_count |-> 0, total_amount |-> 0,
                   csv |-> csv, processed_users |-> processed,
                   authorization |-> authHeader, ops |-> ops,
                   target_month |-> targetMonth,
                   date_from |-> IF "query" \in ops THEN DateFromOf(targetMonth)
                                 ELSE NullDate,
                   date_to |-> IF "query" \in ops THEN DateToOf(targetMonth)
                               ELSE NullDate]

\* A settings row that is not there
NoSetting == [user_id |-> NULL, value |-> NullText]

\* The accountant_auto_enabled row: none, or a user's row with a JSON value
EnabledSettings ==
    {NoSetting} \cup {[user_id |-> u, value |-> <<v>>] : u \in Users, v \in {"true", "false"}}

\* The accountant_doc_types row: none, or a user's list of types
TypeSettings ==
    {NoSetting} \cup {[user_id |-> u, value |-> <<"ryoshusho">>] : u \in Users}

\* The clock of the cron run: March or April 2026
CronNowDates == NowDates \cup {[year |-> 2026, monthIndex |-> 3]}

\* The enabledSettings the first select returns
EnabledVisible(session, enabled) == RlsVisible(enabled, CreateClient(session).uid)

\* typeSetting?.value && Array.isArray(typeSetting.value) ? value : default,
\* of the select with .eq("user_id", userId)
CronDocTypes(session, typeSetting, userId) ==
    IF /\ RlsVisible(typeSetting, CreateClient(session).uid)
       /\ typeSetting.user_id = userId
       /\ typeSetting.value # NullText
    THEN typeSetting.value
    ELSE DEFAULT_DOC_TYPES

\* process.env.CRON_SECRET
CRON_SECRET == "secret"

\* The Authorization headers sent: none, the secret without "Bearer ",
\* another secret, the secret
CronHeaders ==
    {NullText, <<CRON_SECRET>>, <<"Bearer ", "guess">>, <<"Bearer ", CRON_SECRET>>}

\* authHeader equals "Bearer " followed by the secret, the template literal
\* of the route
CronAuthorized(authHeader) == authHeader = <<"Bearer ", CRON_SECRET>>

\* The Authorization header is not "Bearer <CRON_SECRET>": 401
CronUnauthorized(authHeader) ==
    /\ exportResp.n < MaxExports
    /\ ~CronAuthorized(authHeader)
    /\ CronRespond(authHeader, 401, NULL, NullText, <<>>, {}, 0, NoCsv, {})
    /\ UNCHANGED <<documents, files>>
    /\ ExportFrame

\* The select of the enabled settings returns no row
CronNoUsers(authHeader, session, enabled) ==
    /\ exportResp.n < MaxExports
    /\ CronAuthorized(authHeader)
    /\ ~EnabledVisible(session, enabled)
    /\ CronRespond(authHeader, 200, NULL, NullText, <<>>, {}, 0, NoCsv, {})
    /\ UNCHANGED <<documents, files>>
    /\ ExportFrame

\* setting.value !== true: the user is skipped
CronSkipped(authHeader, session, enabled) ==
    /\ exportResp.n < MaxExports
    /\ CronAuthorized(authHeader)
    /\ EnabledVisible(session, enabled)
    /\ enabled.value # <<"true">>
    /\ CronRespond(authHeader, 200, NULL, NullText, <<>>, {}, 0, NoCsv, {})
    /\ UNCHANGED <<documents, files>>
    /\ ExportFrame

\* The loop body for the user of the enabled setting, and the response.
\* failing, folderFailAt and csvFail are as in ExportRun.
CronRun(authHeader, session, enabled, typeSetting, now) ==
    /\ exportResp.n < MaxExports
    /\ CronAuthorized(authHeader)
    /\ EnabledVisible(session, enabled)
    /\ enabled.value = <<"true">>
    /\ LET userId == enabled.user_id
           targetMonth == TargetMonthOf(NullText, now)
           docTypes == CronDocTypes(session, typeSetting, userId)
           rows == ExportQuery(CreateClient(session).uid, docTypes,
                               DateFromOf(targetMonth), DateToOf(targetMonth))
       IN IF rows = <<>>
          THEN /\ CronRespond(authHeader, 200, userId, targetMonth, rows, {}, 0, NoCsv,
                              {"query"})
               /\ files' = files
          ELSE LET groups == GroupDocs(rows, <<>>)
                   withPath == {i \in SeqToSet(rows) :
                                  TruthyText(documents[i].dropbox_path)}
                   gone == {i \in withPath : documents[i].dropbox_path \notin files}
               IN \E failing \in SUBSET withPath,
                     folderFailAt \in 0..(Len(groups) + 1) :
                    /\ gone \subseteq failing
                    /\ LET start == [fs |-> files, results |-> <<>>, totalCopied |-> 0,
                                     csvRows |-> <<>>, threw |-> FALSE]
                           out == IF folderFailAt = 1 THEN [start EXCEPT !.threw = TRUE]
                                  ELSE ExportGroups(groups, 1, BasePathOf(targetMonth),
                                                    failing, folderFailAt, start)
                       IN IF out.threw
                          THEN /\ CronRespond(authHeader, 500, userId, targetMonth, rows,
                                               failing, 0,
                                               [NoCsv EXCEPT !.rows = out.csvRows],
                                               {"query", "storage", "folder_error"})
                               /\ files' = out.fs
                          ELSE \E csvFail \in {FALSE, CsvWanted(out.csvRows)} :
                                 LET csv == CsvWritten(out.csvRows, csvFail)
                                 IN /\ CronRespond(authHeader, 200, userId, targetMonth, rows,
                                                   failing, 1,
                                                   [rows |-> out.csvRows,
                                                    tried |-> CsvWanted(out.csvRows),
                                                    written |-> csv],
                                                   {"query", "storage"})
                                    /\ files' = IF csv
                                                THEN out.fs \cup {CsvPathOf(targetMonth)}
                                                ELSE out.fs
    /\ UNCHANGED documents
    /\ ExportFrame

DocIds == 1..NumDocs

\* The amount of row i when it has one: 10, 20, 40, ...
ExportAmount(i) == 5 * 2^i

\* The rows are filed invoices and receipts of u1 issued in March 2026, any
\* of them without amount or without file; the last row is one of these, or
\* a row of u2, or a row issued on the last day of February.
InitExport ==
    /\ \E types \in [DocIds -> {"seikyusho", "ryoshusho"}],
          noAmount \in SUBSET DocIds, noPath \in SUBSET DocIds,
          last \in {"same", "other_user", "february"} :
         /\ types[1] = "seikyusho"
         /\ documents =
              [i \in DocIds |->
                 [type |-> types[i], vendor_name |-> <<"s">>,
                  amount |-> IF i \in noAmount THEN NullNum ELSE ExportAmount(i),
                  issue_date |-> IF i = NumDocs /\ last = "february"
                                 THEN [y |-> 2026, m |-> 2, d |-> 28]
                                 ELSE [y |-> 2026, m |-> 3, d |-> i],
                  due_date |-> NullDate, description |-> NullText,
                  input_method |-> "upload", status |-> "mishori",
                  dropbox_path |->
                    IF i \in noPath THEN NullText
                    ELSE GetDocumentPath(types[i], FileNameOf(i),
                                         [year |-> 2026, monthIndex |-> 2], "mishori"),
                  user_id |-> IF i = NumDocs /\ last = "other_user" THEN "u2" ELSE "u1",
                  created_at |-> InsertClock, mail_id |-> 0]]
    /\ files = {documents[i].dropbox_path : i \in DocIds} \ {NullText}
    /\ exportResp = [n |-> 0, route |-> NULL, status |-> 0, user |-> NULL,
                     matched |-> <<>>,
                     failing |-> {}, results |-> <<>>, total_count |-> 0,
                     total_amount |-> 0, csv |-> NoCsv, processed_users |-> 0,
                     authorization |-> NullText, ops |-> {}, target_month |-> NullText,
                     date_from |-> NullDate, date_to |-> NullDate]
    /\ mail_pending = 0 /\ reqs = 0 /\ faults = 0 /\ patchResp = 0
    /\ ocrIn = 0 /\ ocrOut = 0 /\ ruleIn = 0 /\ ruleOut = 0
    /\ document_types = 0 /\ settingsResp = 0 /\ pathIn = 0 /\ pathOut = 0
    /\ user_roles = 0 /\ roleReqs = 0 /\ mailbox = 0 /\ fetchReq = 0

\* The target_month values sent: absent, empty, March 2026, a month without
\* its leading zero, a thirteenth month, a full date, and February 2026,
\* February 2024 (a leap year) and April 2026.
TargetMonths ==
    {NullText, <<>>,
     <<"2", "0", "2", "6", "-", "0", "2">>,
     <<"2", "0", "2", "4", "-", "0", "2">>,
     <<"2", "0", "2", "6", "-", "0", "4">>,
     <<"2", "0", "2", "6", "-", "0", "3", "-", "0", "1">>,
     <<"2", "0", "2", "6", "-", "0", "3">>,
     <<"2", "0", "2", "6", "-", "3">>,
     <<"2", "0", "2", "6", "-", "1", "3">>}

\* The doc_types values sent: absent, empty, one type, two types.
GivenDocTypes == {NullText, <<>>, <<"seikyusho">>, <<"ryoshusho", "seikyusho">>}

\* The accountant_doc_types setting: no row, or a stored list.
StoredDocTypes == {NullText, <<"ryoshusho">>}

NextExport ==
    \/ ExportUnauthenticated
    \/ \E u \in Users : ExportForbidden(u)
    \/ \E u \in Users, given \in TargetMonths, now \in NowDates :
          ExportBadMonth(u, given, now)
    \/ \E u \in Users, given \in TargetMonths, now \in NowDates, dbError \in BOOLEAN :
          ExportFetchError(u, given, now, dbError)
    \/ \E u \in Users, given \in TargetMonths, now \in NowDates,
          givenTypes \in GivenDocTypes, setting \in StoredDocTypes :
          ExportRun(u, given, now, givenTypes, setting)
    \/ \E authHeader \in CronHeaders : CronUnauthorized(authHeader)
    \/ \E authHeader \in CronHeaders, session \in Users \cup {NULL},
          enabled \in EnabledSettings :
          CronNoUsers(authHeader, session, enabled)
    \/ \E authHeader \in CronHeaders, session \in Users \cup {NULL},
          enabled \in EnabledSettings :
          CronSkipped(authHeader, session, enabled)
    \/ \E authHeader \in CronHeaders, session \in Users \cup {NULL},
          enabled \in EnabledSettings, typeSetting \in TypeSettings,
          now \in CronNowDates :
          CronRun(authHeader, session, enabled, typeSetting, now)

SpecExport == InitExport /\ [][NextExport]_vars

(***************************************************************************)
(* Accountant export API: the claims                                       *)
(***************************************************************************)
RECURSIVE SumAmounts(_)
SumAmounts(S) ==
    IF S = {} THEN 0
    ELSE LET i == CHOOSE i \in S : TRUE
         IN CoalesceNum(documents[i].amount, 0) + SumAmounts(S \ {i})

RECURSIVE SumCounts(_)
SumCounts(results) ==
    IF results = <<>> THEN 0 ELSE Head(results).count + SumCounts(Tail(results))

\* The matched rows of a type, and those of them whose file was copied:
\* the rows with a path whose copyFile did not throw.
MatchedOfType(t) == {i \in SeqToSet(exportResp.matched) : documents[i].type = t}
CopiedOfType(t) ==
    {i \in MatchedOfType(t) :
       documents[i].dropbox_path # NullText /\ i \notin exportResp.failing}

\* The last export answered with groups.
ExportAnswered ==
    exportResp.route = "manual" /\ exportResp.status = 200 /\ exportResp.matched # <<>>

\* C8: for each type group of an export, count is the number of documents
\* whose file copy succeeded (no path or a failed copy is not counted) and
\* totalAmount is the sum of amount, null as 0, over all matched documents
\* of the group, copied or not; total_count and total_amount are the sums
\* of these over the groups.
C8_ExportCountsAndAmounts ==
    ExportAnswered =>
        /\ {exportResp.results[k].type : k \in 1..Len(exportResp.results)}
             = {documents[i].type : i \in SeqToSet(exportResp.matched)}
        /\ \A k, l \in 1..Len(exportResp.results) :
             exportResp.results[k].type = exportResp.results[l].type => k = l
        /\ \A k \in 1..Len(exportResp.results) :
             LET r == exportResp.results[k]
             IN /\ r.count = Cardinality(CopiedOfType(r.type))
                /\ r.totalAmount = SumAmounts(MatchedOfType(r.type))
        /\ exportResp.total_count = SumCounts(exportResp.results)
        /\ exportResp.total_amount = SumTotalAmount(exportResp.results)

\* Two groups: invoices 1 and 3, of which 3 has no file, and receipt 2,
\* whose copy failed.
C8_Witness ==
    /\ ExportAnswered
    /\ exportResp.matched = <<1, 3, 2>>
    /\ documents[3].dropbox_path = NullText
    /\ exportResp.failing = {2}
    /\ exportResp.results =
         <<[type |-> "seikyusho", count |-> 1, totalAmount |-> 50],
           [type |-> "ryoshusho", count |-> 0, totalAmount |-> 20]>>
    /\ exportResp.total_count = 1
    /\ exportResp.total_amount = 70

(***************************************************************************)
(* Gemini wrapper: parseOcrResponse                                        *)
(* A response text is a sequence of lexical tokens: the fences FenceJson   *)
(* and Fence, the whitespace " " and "\n", the prose word "x", the JSON    *)
(* punctuation, the literals null, true, false, number literals (not       *)
(* negative) and string literals (written here with their quotes).         *)
(***************************************************************************)
MaxFields == 2      \* members of a JSON object in the response texts

\* The variables the parser does not touch.
ParseFrame == UNCHANGED <<mail_pending, documents, files, reqs, faults, patchResp,
                          exportResp, ruleIn, ruleOut, document_types, settingsResp,
                          pathIn, pathOut,
                          user_roles, roleReqs, mailbox, fetchReq>>

\* Three backquotes followed by json, and three backquotes alone
FenceJson == "fence_json"
Fence == "fence"

Whitespace == {" ", "\n"}
NumberLiterals == {"0", "1", "120"}
StringLiterals ==
    {"\"\"", "\"v\"", "\"2026-03-15\"", "\"ryoshusho\"", "\"vendor_name\"",
     "\"amount\"", "\"issue_date\"", "\"due_date\"", "\"description\"", "\"type\"",
     "\"confidence\"", "\"note\""}

\* The number a number literal denotes
NumberValue(t) == CASE t = "0" -> 0 [] t = "1" -> 1 [] t = "120" -> 120

\* The text a string literal denotes
StringValue(t) ==
    CASE t = "\"\"" -> <<>>
      [] t = "\"v\"" -> <<"v">>
      [] t = "\"2026-03-15\"" -> <<"2", "0", "2", "6", "-", "0", "3", "-", "1", "5">>
      [] t = "\"ryoshusho\"" -> <<"ryoshusho">>
      [] t = "\"vendor_name\"" -> <<"vendor_name">>
      [] t = "\"amount\"" -> <<"amount">>
      [] t = "\"issue_date\"" -> <<"issue_date">>
      [] t = "\"due_date\"" -> <<"due_date">>
      [] t = "\"description\"" -> <<"description">>
      [] t = "\"type\"" -> <<"type">>
      [] t = "\"confidence\"" -> <<"confidence">>
      [] t = "\"note\"" -> <<"note">>

\* text.replace(/<fence>\s*/g, ""): every fence and the whitespace after it
RECURSIVE SkipWhitespace(_)
SkipWhitespace(text) ==
    IF text # <<>> /\ Head(text) \in Whitespace THEN SkipWhitespace(Tail(text))
    ELSE text

RECURSIVE RemoveFence(_, _)
RemoveFence(text, fence) ==
    IF text = <<>> THEN <<>>
    ELSE IF Head(text) = fence THEN RemoveFence(SkipWhitespace(Tail(text)), fence)
    ELSE <<Head(text)>> \o RemoveFence(Tail(text), fence)

\* text.trim()
RECURSIVE TrimEnd(_)
TrimEnd(text) ==
    IF text # <<>> /\ text[Len(text)] \in Whitespace
    THEN TrimEnd(SubSeq(text, 1, Len(text) - 1))
    ELSE text
Trim(text) == TrimEnd(SkipWhitespace(text))

\* const cleaned = responseText.replace(...).replace(...).trim()
Cleaned(responseText) == Trim(RemoveFence(RemoveFence(responseText, FenceJson), Fence))

\* A JavaScript value as JSON.parse builds it: its kind, the number or text
\* it holds, and for an object its members in order as [key, kind, num, str].
\* rest is what follows the value in the text; ok is FALSE for a syntax error.
JsValue(kind, num, str, fields, rest) ==
    [ok |-> TRUE, kind |-> kind, num |-> num, str |-> str, fields |-> fields,
     rest |-> rest]
SyntaxError ==
    [ok |-> FALSE, kind |-> "undefined", num |-> 0, str |-> <<>>, fields |-> <<>>,
     rest |-> <<>>]

\* JSON grammar: value, the elements of an array after "[" or ",", the
\* members of an object after "{" or ",".  Whitespace between the tokens is
\* skipped.
RECURSIVE ParseValue(_)
RECURSIVE ParseElements(_)
RECURSIVE ParseMembers(_, _)
ParseValue(text) ==
    LET toks == SkipWhitespace(text)
    IN IF toks = <<>> THEN SyntaxError
       ELSE LET t == Head(toks)
                rest == SkipWhitespace(Tail(toks))
            IN CASE t = "null" -> JsValue("null", 0, <<>>, <<>>, rest)
                 [] t \in {"true", "false"} -> JsValue("boolean", 0, <<>>, <<>>, rest)
                 [] t \in NumberLiterals ->
                      JsValue("number", NumberValue(t), <<>>, <<>>, rest)
                 [] t \in StringLiterals ->
                      JsValue("string", 0, StringValue(t), <<>>, rest)
                 [] t = "[" ->
                      IF rest # <<>> /\ Head(rest) = "]"
                      THEN JsValue("array", 0, <<>>, <<>>, Tail(rest))
                      ELSE ParseElements(rest)
                 [] t = "{" ->
                      IF rest # <<>> /\ Head(rest) = "}"
                      THEN JsValue("object", 0, <<>>, <<>>, Tail(rest))
                      ELSE ParseMembers(rest, <<>>)
                 [] OTHER -> SyntaxError

ParseElements(text) ==
    LET v == ParseValue(text)
        after == SkipWhitespace(v.rest)
    IN IF ~v.ok \/ after = <<>> THEN SyntaxError
       ELSE IF Head(after) = "]" THEN JsValue("array", 0, <<>>, <<>>, Tail(after))
       ELSE IF Head(after) = "," THEN ParseElements(Tail(after))
       ELSE SyntaxError

ParseMembers(text, fields) ==
    LET toks == SkipWhitespace(text)
    IN IF Len(toks) < 2 \/ Head(toks) \notin StringLiterals
          \/ SkipWhitespace(Tail(toks)) = <<>>
          \/ Head(SkipWhitespace(Tail(toks))) # ":"
       THEN SyntaxError
       ELSE LET key == StringValue(Head(toks))
                v == ParseValue(Tail(SkipWhitespace(Tail(toks))))
                after == SkipWhitespace(v.rest)
                member == [key |-> key, kind |-> v.kind, num |-> v.num, str |-> v.str]
            IN IF ~v.ok \/ after = <<>> THEN SyntaxError
               ELSE IF Head(after) = "}"
               THEN JsValue("object", 0, <<>>, Append(fields, member), Tail(after))
               ELSE IF Head(after) = ","
               THEN ParseMembers(Tail(after), Append(fields, member))
               ELSE SyntaxError

\* JSON.parse(cleaned): one value and nothing after it
JsonParse(text) ==
    LET v == ParseValue(text)
    IN IF v.ok /\ SkipWhitespace(v.rest) = <<>> THEN v ELSE SyntaxError

\* The value undefined
Undefined == [key |-> <<>>, kind |-> "undefined", num |-> 0, str |-> <<>>]

\* parsed.name for a parsed value other than null: the last member of that
\* name when parsed is an object, undefined for an array, a string, a number
\* or a boolean.
Property(parsed, name) ==
    LET at == {k \in 1..Len(parsed.fields) : parsed.fields[k].key = <<name>>}
    IN IF parsed.kind # "object" \/ at = {} THEN Undefined
       ELSE parsed.fields[CHOOSE k \in at : \A l \in at : l <= k]

\* A type name is one token.
TypeAtom(str) == IF str = <<>> THEN "" ELSE str[1]

\* Mutant of TryBlock: one member of the wrong type makes the whole record
\* the fallback.
TryBlock_AllOrNothing(responseText) ==
    LET parsed == JsonParse(Cleaned(responseText))
        vendor_name == Property(parsed, "vendor_name")
        amount == Property(parsed, "amount")
        issue_date == Property(parsed, "issue_date")
        due_date == Property(parsed, "due_date")
        description == Property(parsed, "description")
        type == Property(parsed, "type")
        confidence == Property(parsed, "confidence")
    IN IF ~parsed.ok THEN [threw |-> "SyntaxError", value |-> FALLBACK_RESULT]
       ELSE IF parsed.kind = "null" THEN [threw |-> "TypeError", value |-> FALLBACK_RESULT]
       ELSE IF \/ \E p \in {vendor_name, issue_date, due_date, description, type} :
                    p.kind \notin {"string", "undefined"}
               \/ \E p \in {amount, confidence} : p.kind \notin {"number", "undefined"}
       THEN [threw |-> NULL, value |-> FALLBACK_RESULT]
       ELSE [threw |-> NULL,
             value |->
               [vendor_name |-> IF vendor_name.kind = "string" THEN vendor_name.str
                                ELSE <<>>,
                amount |-> IF amount.kind = "number" THEN amount.num ELSE NullNum,
                issue_date |-> IF issue_date.kind = "string" THEN issue_date.str
                               ELSE NullText,
                due_date |-> IF due_date.kind = "string" THEN due_date.str ELSE NullText,
                description |-> IF description.kind = "string" THEN description.str
                                ELSE NullText,
                type |-> IF type.kind = "string" THEN TypeAtom(type.str) ELSE NULL,
                confidence |-> IF confidence.kind = "number" THEN confidence.num
                               ELSE 0]]

\* The try block: the record it returns, or the exception it throws.
\* Reading a property of null throws a TypeError.
TryBlock(responseText) ==
    LET parsed == JsonParse(Cleaned(responseText))
        vendor_name == Property(parsed, "vendor_name")
        amount == Property(parsed, "amount")
        issue_date == Property(parsed, "issue_date")
        due_date == Property(parsed, "due_date")
        description == Property(parsed, "description")
        type == Property(parsed, "type")
        confidence == Property(parsed, "confidence")
    IN IF ~parsed.ok THEN [threw |-> "SyntaxError", value |-> FALLBACK_RESULT]
       ELSE IF parsed.kind = "null" THEN [threw |-> "TypeError", value |-> FALLBACK_RESULT]
       ELSE [threw |-> NULL,
             value |->
               [vendor_name |-> IF vendor_name.kind = "string" THEN vendor_name.str
                                ELSE <<>>,
                amount |-> IF amount.kind = "number" THEN amount.num ELSE NullNum,
                issue_date |-> IF issue_date.kind = "string" THEN issue_date.str
                               ELSE NullText,
                due_date |-> IF due_date.kind = "string" THEN due_date.str ELSE NullText,
                description |-> IF description.kind = "string" THEN description.str
                                ELSE NullText,
                type |-> IF type.kind = "string" THEN TypeAtom(type.str) ELSE NULL,
                confidence |-> IF confidence.kind = "number" THEN confidence.num
                               ELSE 0]]

\* Mutant of ParseOcrResponse: no catch block.
ParseOcrResponse_NoCatch(responseText) == TryBlock(responseText)

\* parseOcrResponse(responseText): the catch block returns FALLBACK_RESULT
ParseOcrResponse(responseText) ==
    LET r == TryBlock(responseText)
    IN IF r.threw # NULL THEN [threw |-> NULL, value |-> FALLBACK_RESULT] ELSE r

\* The response texts, each with the shape it was written in: a JSON
\* object, array, scalar or null, or a text that is not JSON.
JsonKeys ==
    {"\"vendor_name\"", "\"amount\"", "\"issue_date\"", "\"due_date\"",
     "\"description\"", "\"type\"", "\"confidence\"", "\"note\""}
JsonMemberValues == {<<"120">>, <<"\"v\"">>}
JsonMembers == {<<k, ":">> \o v : k \in JsonKeys, v \in JsonMemberValues}

\* The member lists of exactly n members
RECURSIVE MemberLists(_)
MemberLists(n) ==
    IF n = 0 THEN {<<>>}
    ELSE IF n = 1 THEN JsonMembers
    ELSE {l \o <<",">> \o m : l \in MemberLists(n - 1), m \in JsonMembers}

\* Objects of up to MaxFields members that hold a number or a string, and
\* objects of one member that holds null, a boolean, an array or an object.
JsonObjects ==
    {<<"{">> \o l \o <<"}">> : l \in UNION {MemberLists(n) : n \in 0..MaxFields}}
      \cup {<<"{", k, ":">> \o v \o <<"}">> :
               k \in JsonKeys,
               v \in {<<"null">>, <<"true">>, <<"[", "]">>, <<"[", "120", "]">>, <<"{", "}">>,
                      <<"{", "\"type\"", ":", "\"v\"", "}">>}}
JsonArrays ==
    {<<"[", "]">>, <<"[", "120", "]">>, <<"[", "\"v\"", ",", "{", "}", "]">>,
     <<"[", "{", "\"type\"", ":", "\"v\"", "}", "]">>}
JsonScalars == {<<"120">>, <<"0">>, <<"\"v\"">>, <<"\"\"">>, <<"true">>, <<"false">>}
NotJson ==
    {<<>>, <<"x">>, <<"x", " ", "x">>, <<"{">>, <<"}">>, <<"[">>, <<"{", "\"type\"">>,
     <<"{", "\"type\"", ":">>, <<"{", "\"type\"", ":", "\"v\"">>,
     <<"{", "\"type\"", ":", "\"v\"", ",", "}">>, <<"{", "\"type\"", "\"v\"", "}">>,
     <<"{", "120", ":", "\"v\"", "}">>, <<"[", "120", ",", "]">>,
     <<"[", "120", "120", "]">>, <<"120", "120">>, <<"{", "}", "{", "}">>,
     <<"{", "x", "}">>, <<":">>, <<",">>, <<"null", "null">>}

ShapedTexts ==
    {[text |-> t, shape |-> "object"] : t \in JsonObjects}
      \cup {[text |-> t, shape |-> "array"] : t \in JsonArrays}
      \cup {[text |-> t, shape |-> "scalar"] : t \in JsonScalars}
      \cup {[text |-> <<"null">>, shape |-> "null"]}
      \cup {[text |-> t, shape |-> "invalid"] : t \in NotJson}

\* The text as the model writes it: bare, in a json fence, in a plain fence,
\* inside whitespace; with prose before or after it is no longer JSON.
OcrInputs ==
    ShapedTexts
      \cup {[s EXCEPT !.text = <<FenceJson, "\n">> \o @ \o <<"\n", Fence>>] :
               s \in ShapedTexts}
      \cup {[s EXCEPT !.text = <<Fence>> \o @ \o <<Fence, "\n">>] : s \in ShapedTexts}
      \cup {[s EXCEPT !.text = <<" ", "\n">> \o @ \o <<"\n">>] : s \in ShapedTexts}
      \cup {[text |-> <<"x", " ">> \o s.text, shape |-> "invalid"] : s \in ShapedTexts}
      \cup {[text |-> s.text \o <<"\n", "x">>, shape |-> "invalid"] : s \in ShapedTexts}

InitParse ==
    /\ ocrIn \in OcrInputs
    /\ ocrOut = [called |-> FALSE, threw |-> NULL, value |-> FALLBACK_RESULT]
    /\ mail_pending = 0 /\ documents = 0 /\ files = 0 /\ reqs = 0 /\ faults = 0
    /\ patchResp = 0 /\ exportResp = 0 /\ ruleIn = 0 /\ ruleOut = 0
    /\ document_types = 0 /\ settingsResp = 0 /\ pathIn = 0 /\ pathOut = 0
    /\ user_roles = 0 /\ roleReqs = 0 /\ mailbox = 0 /\ fetchReq = 0

\* One call of parseOcrResponse
CallParseOcrResponse ==
    /\ ~ocrOut.called
    /\ LET r == ParseOcrResponse(ocrIn.text)
       IN ocrOut' = [called |-> TRUE, threw |-> r.threw, value |-> r.value]
    /\ UNCHANGED ocrIn
    /\ ParseFrame

NextParse == CallParseOcrResponse

SpecParse == InitParse /\ [][NextParse]_vars

(***************************************************************************)
(* parseOcrResponse: the claims                                            *)
(***************************************************************************)
\* The record has the seven fields of OcrResult with values of their types:
\* vendor_name a string, amount a number or null, the dates, description
\* and type a string or null, confidence a number.
WellFormedOcrResult(v) ==
    /\ DOMAIN v = {"vendor_name", "amount", "issue_date", "due_date", "description",
                   "type", "confidence"}
    /\ v.vendor_name \in Seq(STRING) /\ v.vendor_name # NullText
    /\ v.amount \in Nat \cup {NullNum}
    /\ v.issue_date \in Seq(STRING)
    /\ v.due_date \in Seq(STRING)
    /\ v.description \in Seq(STRING)
    /\ v.type \in STRING
    /\ v.confidence \in Nat

\* C9: parseOcrResponse is total: for every response text it returns a
\* well-formed OcrResult and does not throw; when the text is not JSON or
\* its root is not an object the result is the all-default record
\* (vendor_name empty, amount, dates, description and type null,
\* confidence 0).
C9_ParseIsTotal ==
    ocrOut.called =>
        /\ ocrOut.threw = NULL
        /\ WellFormedOcrResult(ocrOut.value)
        /\ ocrIn.shape # "object" =>
             ocrOut.value = [vendor_name |-> <<>>, amount |-> NullNum,
                             issue_date |-> NullText, due_date |-> NullText,
                             description |-> NullText, type |-> NULL,
                             confidence |-> 0]

\* A fenced JSON null: the property read throws inside the try block.
C9_Witness ==
    /\ ocrOut.called
    /\ ocrIn.text = <<FenceJson, "\n", "null", "\n", Fence>>
    /\ TryBlock(ocrIn.text).threw = "TypeError"
    /\ ocrOut.threw = NULL
    /\ ocrOut.value.vendor_name = <<>> /\ ocrOut.value.confidence = 0

(***************************************************************************)
(* Gemini wrapper: applyAutoClassifyRules                                  *)
(* Vendor names, descriptions and keywords are sequences of characters.    *)
(***************************************************************************)
MaxRules == 3       \* rules in the array handed to applyAutoClassifyRules

\* The variables the rule engine does not touch.
RulesFrame == UNCHANGED <<mail_pending, documents, files, reqs, faults, patchResp,
                          exportResp, ocrIn, ocrOut, document_types, settingsResp,
                          pathIn, pathOut,
                          user_roles, roleReqs, mailbox, fetchReq>>

\* String.prototype.toLowerCase, a character at a time
LowerChar(c) ==
    CASE c = "A" -> "a" [] c = "B" -> "b" [] c = "C" -> "c" [] OTHER -> c
ToLowerCase(s) == [i \in 1..Len(s) |-> LowerChar(s[i])]

\* text.includes(keyword)
Includes(text, keyword) ==
    \E i \in 0..(Len(text) - Len(keyword)) :
        SubSeq(text, i + 1, i + Len(keyword)) = keyword

\* Mutant of FilterActive: every rule is kept, active or not.
FilterActive_All(rules) == rules

\* rules.filter((r) => r.is_active)
RECURSIVE FilterActive(_)
FilterActive(rules) ==
    IF rules = <<>> THEN <<>>
    ELSE IF Head(rules).is_active THEN <<Head(rules)>> \o FilterActive(Tail(rules))
    ELSE FilterActive(Tail(rules))

\* sorted is in descending priority; rule goes after every rule it does not
\* precede, so that rules of equal priority keep their order.
RECURSIVE InsertByPriority(_, _)
InsertByPriority(sorted, rule) ==
    IF sorted = <<>> THEN <<rule>>
    ELSE IF rule.priority - Head(sorted).priority > 0
    THEN <<rule>> \o sorted
    ELSE <<Head(sorted)>> \o InsertByPriority(Tail(sorted), rule)

\* Mutant of SortByPriority: the array is left in its order.
SortByPriority_Unsorted(rules) == rules

\* .sort((a, b) => b.priority - a.priority): Array.prototype.sort is stable
RECURSIVE SortByPriority(_)
SortByPriority(rules) ==
    IF rules = <<>> THEN <<>>
    ELSE InsertByPriority(SortByPriority(SubSeq(rules, 1, Len(rules) - 1)),
                          rules[Len(rules)])

\* The for loop: the result with the type of the first rule that matches
RECURSIVE FirstMatch(_, _, _)
FirstMatch(result, searchText, activeRules) ==
    IF activeRules = <<>> THEN result
    ELSE IF Includes(searchText, ToLowerCase(Head(activeRules).keyword))
    THEN [result EXCEPT !.type = Head(activeRules).document_type]
    ELSE FirstMatch(result, searchText, Tail(activeRules))

\* Mutant of ApplyAutoClassifyRules: the search text is the vendor name only.
ApplyAutoClassifyRules_VendorOnly(result, rules) ==
    FirstMatch(result, ToLowerCase(result.vendor_name),
               SortByPriority(FilterActive(rules)))

\* applyAutoClassifyRules(result, rules)
ApplyAutoClassifyRules(result, rules) ==
    LET activeRules == SortByPriority(FilterActive(rules))
        searchText == ToLowerCase(result.vendor_name \o <<" ">>
                                    \o CoalesceText(result.description, <<>>))
    IN FirstMatch(result, searchText, activeRules)

\* Whether the value returned is the input object itself: return result
\* after the loop, where a match returns the new object { ...result, type }.
ReturnsInputObject(result, rules) ==
    FirstMatch([result EXCEPT !.type = NULL],
               ToLowerCase(result.vendor_name \o <<" ">>
                             \o CoalesceText(result.description, <<>>)),
               SortByPriority(FilterActive(rules))).type = NULL

\* The rules array after the call: filter builds a new array and sort sorts
\* that one in place, so the array of the caller is as it was.
RulesAfterCall(rules) == rules

\* The result object of the caller after the call: the function assigns to
\* none of its properties.
ResultAfterCall(result) == result

\* The document types of the rules: the rule at position i targets the i-th
\* of these, so that the type tells which rule was applied.
RuleTypes == <<"ryoshusho", "keiyakusho", "seikyusho", "nohinsho", "mitsumorisho">>
RuleKeywords == {<<"B">>, <<"z">>, <<"c", " ", "b">>}
RulePriorities == {5, 10}

RuleArrays ==
    UNION {{[i \in 1..n |->
               [keyword |-> kw[i], document_type |-> RuleTypes[i],
                priority |-> pr[i], is_active |-> ac[i]]] :
              kw \in [1..n -> RuleKeywords], pr \in [1..n -> RulePriorities],
              ac \in [1..n -> BOOLEAN]} : n \in 0..MaxRules}

RuleResults ==
    {[vendor_name |-> v, amount |-> 120, issue_date |-> <<"z">>, due_date |-> NullText,
      description |-> d, type |-> t, confidence |-> 1] :
       v \in {<<"A", "b", "c">>, <<"c">>}, d \in {NullText, <<"b">>},
       t \in {"sonota"}}

InitRules ==
    /\ ruleIn \in {[result |-> r, rules |-> a] : r \in RuleResults, a \in RuleArrays}
    /\ ruleOut = [called |-> FALSE, result |-> FALLBACK_RESULT, same_object |-> FALSE,
                  input_result |-> FALLBACK_RESULT, input_rules |-> <<>>]
    /\ mail_pending = 0 /\ documents = 0 /\ files = 0 /\ reqs = 0 /\ faults = 0
    /\ patchResp = 0 /\ exportResp = 0 /\ ocrIn = 0 /\ ocrOut = 0
    /\ document_types = 0 /\ settingsResp = 0 /\ pathIn = 0 /\ pathOut = 0
    /\ user_roles = 0 /\ roleReqs = 0 /\ mailbox = 0 /\ fetchReq = 0

\* One call of applyAutoClassifyRules
CallApplyAutoClassifyRules ==
    /\ ~ruleOut.called
    /\ ruleOut' = [called |-> TRUE,
                   result |-> ApplyAutoClassifyRules(ruleIn.result, ruleIn.rules),
                   same_object |-> ReturnsInputObject(ruleIn.result, ruleIn.rules),
                   input_result |-> ResultAfterCall(ruleIn.result),
                   input_rules |-> RulesAfterCall(ruleIn.rules)]
    /\ UNCHANGED ruleIn
    /\ RulesFrame

NextRules == CallApplyAutoClassifyRules

SpecRules == InitRules /\ [][NextRules]_vars

(***************************************************************************)
(* applyAutoClassifyRules: the claims                                      *)
(***************************************************************************)
\* The positions of the active rules whose keyword the result contains
MatchingRules ==
    {i \in 1..Len(ruleIn.rules) :
       /\ ruleIn.rules[i].is_active
       /\ Includes(ToLowerCase(ruleIn.result.vendor_name \o <<" ">>
                                 \o CoalesceText(ruleIn.result.description, <<>>)),
                   ToLowerCase(ruleIn.rules[i].keyword))}

\* C10: when active rules match the result, the output type is the target
\* type of the matching rule of highest priority, wherever it stands in the
\* array; among matching rules of that priority the earliest in the array
\* wins.
C10_HighestPriorityWins ==
    (ruleOut.called /\ MatchingRules # {}) =>
        \E i \in MatchingRules :
            /\ \A j \in MatchingRules :
                 \/ ruleIn.rules[j].priority < ruleIn.rules[i].priority
                 \/ ruleIn.rules[j].priority = ruleIn.rules[i].priority /\ i <= j
            /\ ruleOut.result.type = ruleIn.rules[i].document_type

\* Three matching rules of priorities 5, 10, 10: the second wins.
C10_Witness ==
    /\ ruleOut.called
    /\ MatchingRules = {1, 2, 3}
    /\ ruleIn.rules[1].priority = 5
    /\ ruleIn.rules[2].priority = 10
    /\ ruleIn.rules[3].priority = 10
    /\ ruleOut.result.type = RuleTypes[2]

\* The array without its rule at position i
WithoutRule(rules, i) == SubSeq(rules, 1, i - 1) \o SubSeq(rules, i + 1, Len(rules))

\* The positions of the inactive rules whose keyword the result contains
InactiveMatchingRules ==
    {i \in 1..Len(ruleIn.rules) :
       /\ ~ruleIn.rules[i].is_active
       /\ Includes(ToLowerCase(ruleIn.result.vendor_name \o <<" ">>
                                 \o CoalesceText(ruleIn.result.description, <<>>)),
                   ToLowerCase(ruleIn.rules[i].keyword))}

\* C11: a rule whose is_active flag is false never changes the result: the
\* output is the output for the array without that rule, and the output type
\* is the input type or the target type of an active matching rule.  When no
\* active rule matches (also when there is no active rule at all) the output
\* is the input result, type included.
C11_InactiveRulesIgnored ==
    ruleOut.called =>
        /\ \A i \in 1..Len(ruleIn.rules) :
             ~ruleIn.rules[i].is_active =>
                 ruleOut.result
                   = ApplyAutoClassifyRules(ruleIn.result, WithoutRule(ruleIn.rules, i))
        /\ \/ ruleOut.result.type = ruleIn.result.type
           \/ \E i \in MatchingRules :
                  ruleOut.result.type = ruleIn.rules[i].document_type
        /\ MatchingRules = {} => ruleOut.result = ruleIn.result

\* No active rule matches while an inactive rule of the highest priority
\* does, next to an active rule that does not match: the type is kept.
C11_Witness ==
    /\ ruleOut.called
    /\ Len(ruleIn.rules) = 2
    /\ MatchingRules = {}
    /\ InactiveMatchingRules = {1}
    /\ ruleIn.rules[1].priority = 10
    /\ ruleIn.rules[2].is_active
    /\ ruleIn.rules[2].priority = 5
    /\ ruleOut.result.type = "sonota"
    /\ ruleOut.result = ruleIn.result

(***************************************************************************)
(* Accountant export, manual and cron: more claims                         *)
(***************************************************************************)
\* The export at hand is the step that answers an export request.
ExportStep == exportResp'.n # exportResp.n

\* File f of the accountant folder is a copy of the file of row i.
IsCopyOf(f, i) ==
    /\ documents[i].dropbox_path # NullText
    /\ Includes(f, <<"/">> \o LastSegment(documents[i].dropbox_path))

IsCsvSummary(f) == Includes(f, <<"teishutsu_shorui_ichiran_">>)

AccountantFiles == {f \in files : Includes(f, <<"zeirishi_teishutsu">>)}

C14_YearMonthShape(s) ==
    /\ Len(s) = 7
    /\ \A i \in 1..7 : IF i = 5 THEN s[i] = "-" ELSE IsDigit(s[i])

NumTypes == 2          \* document_types rows
MaxSettingsOps == 2    \* settings requests in one run

\* The variables the settings API does not touch.
SettingsFrame == UNCHANGED <<mail_pending, documents, files, reqs, faults, patchResp,
                             exportResp, ocrIn, ocrOut, ruleIn, ruleOut, pathIn,
                             pathOut,
                             user_roles, roleReqs, mailbox, fetchReq>>

ALLOWED_TABLES ==
    {"settings", "allowed_senders", "notify_recipients", "custom_folders",
     "document_types"}

\* validateTable(table)
ValidateTable(table) == table # NULL /\ table \in ALLOWED_TABLES

SettingsRespond(method, status, u, table, id) ==
    settingsResp' = [n |-> settingsResp.n + 1, method |-> method, status |-> status,
                     user |-> u, table |-> table, id |-> id]

\* The update object of the document_types branch: the fields of the body
\* that have the type asked for.  A body holds name (NullText when it is
\* absent or no string), folder_given and dropbox_folder (NullText for
\* null), sort_order (NullNum when absent or no number) and is_default
\* (NULL when absent or no boolean).
DocumentTypeUpdate(body) ==
    [has |-> {f \in {"name", "dropbox_folder", "sort_order", "is_default"} :
                CASE f = "name" -> body.name # NullText
                  [] f = "dropbox_folder" -> body.folder_given
                  [] f = "sort_order" -> body.sort_order # NullNum
                  [] f = "is_default" -> body.is_default # NULL},
     name |-> Trim(body.name), dropbox_folder |-> body.dropbox_folder,
     sort_order |-> body.sort_order, is_default |-> body.is_default = "true"]

\* The row after .update(update)
UpdatedType(row, up) ==
    [id |-> row.id, user_id |-> row.user_id,
     name |-> IF "name" \in up.has THEN up.name ELSE row.name,
     dropbox_folder |-> IF "dropbox_folder" \in up.has THEN up.dropbox_folder
                        ELSE row.dropbox_folder,
     sort_order |-> IF "sort_order" \in up.has THEN up.sort_order ELSE row.sort_order,
     is_default |-> IF "is_default" \in up.has THEN up.is_default ELSE row.is_default]

\* The rows .eq("id", id).eq("user_id", user.id) selects
TypeTargets(u, id) ==
    {r \in document_types : r.id = id /\ RlsVisible(r, CreateClient(u).uid) /\ r.user_id = u}

\* The unique index on (user_id, name) rejects the new row
NameTaken(row) ==
    \E r \in document_types : r.id # row.id /\ r.user_id = row.user_id /\ r.name = row.name

\* No session: 401, for PATCH and for DELETE
SettingsUnauthenticated(method) ==
    /\ settingsResp.n < MaxSettingsOps
    /\ SettingsRespond(method, 401, NULL, NULL, 0)
    /\ UNCHANGED document_types
    /\ SettingsFrame

\* The table is not one of the five, or there is no id: 400
SettingsInvalid(method, u, table, id) ==
    /\ settingsResp.n < MaxSettingsOps
    /\ ~ValidateTable(table) \/ id = 0
    /\ SettingsRespond(method, 400, u, table, id)
    /\ UNCHANGED document_types
    /\ SettingsFrame

\* PATCH on one of the other four tables
SettingsPatchOther(u, table, id, dbError) ==
    /\ settingsResp.n < MaxSettingsOps
    /\ ValidateTable(table) /\ table # "document_types" /\ id # 0
    /\ SettingsRespond("PATCH", IF dbError THEN 500 ELSE 200, u, table, id)
    /\ UNCHANGED document_types
    /\ SettingsFrame

\* PATCH on document_types.  The update fails (500) when the database does,
\* when no row of the user has the id (.single()), and when the new name is
\* taken; an update without a field changes nothing.
SettingsPatchDocumentType(u, id, body, dbError) ==
    /\ settingsResp.n < MaxSettingsOps
    /\ id # 0
    /\ LET up == DocumentTypeUpdate(body)
           targets == TypeTargets(u, id)
       IN IF dbError \/ targets = {}
          THEN /\ SettingsRespond("PATCH", 500, u, "document_types", id)
               /\ UNCHANGED document_types
          ELSE LET row == CHOOSE r \in targets : TRUE
                   new == UpdatedType(row, up)
               IN IF NameTaken(new)
                  THEN /\ SettingsRespond("PATCH", 500, u, "document_types", id)
                       /\ UNCHANGED document_types
                  ELSE /\ SettingsRespond("PATCH", 200, u, "document_types", id)
                       /\ document_types' = (document_types \ {row}) \cup {new}
    /\ SettingsFrame

\* DELETE: .delete().eq("id", id).eq("user_id", user.id) on the table
SettingsDelete(u, table, id, dbError) ==
    /\ settingsResp.n < MaxSettingsOps
    /\ ValidateTable(table) /\ id # 0
    /\ IF dbError
       THEN /\ SettingsRespond("DELETE", 500, u, table, id)
            /\ UNCHANGED document_types
       ELSE /\ SettingsRespond("DELETE", 200, u, table, id)
            /\ document_types' = IF table = "document_types"
                                 THEN document_types \ TypeTargets(u, id)
                                 ELSE document_types
    /\ SettingsFrame

\* handleDelete of the settings screen: a default type is refused with a
\* message, any other type is deleted through the API once confirmed.
HandleDelete(u, type, dbError) ==
    /\ type \in document_types
    /\ type.user_id = u
    /\ ~type.is_default
    /\ SettingsDelete(u, "document_types", type.id, dbError)

TypeIds == 1..NumTypes

\* The PATCH bodies sent
TypeBodies ==
    {[name |-> n, folder_given |-> g, dropbox_folder |-> d, sort_order |-> o,
      is_default |-> b] :
       n \in {NullText, <<"kyuyo">>, <<" ", "seikyusho">>, <<"meisai">>},
       g \in BOOLEAN, d \in {NullText, <<"e">>}, o \in {NullNum, 7},
       b \in {NULL, "true", "false"}}

\* Row 1 is the default type seikyusho of u1; the other rows are types
\* kyuyo, default or not, of u1 or u2.
InitSettings ==
    /\ \E owner \in [TypeIds -> Users], dflt \in [TypeIds -> BOOLEAN] :
         /\ owner[1] = "u1" /\ dflt[1]
         /\ document_types =
              {[id |-> i, user_id |-> owner[i],
                name |-> IF i = 1 THEN <<"seikyusho">> ELSE <<"kyuyo">> \o NumToString(i),
                dropbox_folder |-> <<"d">>, sort_order |-> i - 1,
                is_default |-> dflt[i]] : i \in TypeIds}
    /\ settingsResp = [n |-> 0, method |-> NULL, status |-> 0, user |-> NULL,
                       table |-> NULL, id |-> 0]
    /\ mail_pending = 0 /\ documents = 0 /\ files = 0 /\ reqs = 0 /\ faults = 0
    /\ patchResp = 0 /\ exportResp = 0 /\ ocrIn = 0 /\ ocrOut = 0
    /\ ruleIn = 0 /\ ruleOut = 0 /\ pathIn = 0 /\ pathOut = 0
    /\ user_roles = 0 /\ roleReqs = 0 /\ mailbox = 0 /\ fetchReq = 0

NextSettings ==
    \/ \E method \in {"PATCH", "DELETE"} : SettingsUnauthenticated(method)
    \/ \E method \in {"PATCH", "DELETE"}, u \in Users,
          table \in {NULL, "documents", "document_types"}, id \in {0} \cup TypeIds :
          SettingsInvalid(method, u, table, id)
    \/ \E u \in Users, id \in TypeIds, dbError \in BOOLEAN :
          SettingsPatchOther(u, "custom_folders", id, dbError)
    \/ \E u \in Users, id \in TypeIds, body \in TypeBodies, dbError \in BOOLEAN :
          SettingsPatchDocumentType(u, id, body, dbError)
    \/ \E u \in Users, table \in {"custom_folders", "document_types"},
          id \in TypeIds, dbError \in BOOLEAN :
          SettingsDelete(u, table, id, dbError)
    \/ \E u \in Users, type \in document_types, dbError \in BOOLEAN :
          HandleDelete(u, type, dbError)

SpecSettings == InitSettings /\ [][NextSettings]_vars

(***************************************************************************)
(* Settings API: the claims                                                *)
(***************************************************************************)
\* C15: no PATCH and no DELETE of the settings API deletes or renames a
\* document_types row whose is_default is true: the row is still there
\* after the step, under the name it had.
C15_DefaultTypesProtected ==
    [][\A r \in document_types :
          r.is_default =>
              \E r2 \in document_types' : r2.id = r.id /\ r2.name = r.name]_vars

(***************************************************************************)
(* Dropbox wrapper: getDocumentPath                                        *)
(* The Date argument is a UTC timestamp read on a server whose local time  *)
(* is UTC + tz hours.                                                      *)
(***************************************************************************)
PathFrame == UNCHANGED <<mail_pending, documents, files, reqs, faults, patchResp,
                         exportResp, ocrIn, ocrOut, ruleIn, ruleOut, document_types,
                         settingsResp,
                         user_roles, roleReqs, mailbox, fetchReq>>

PathTypes == {"seikyusho", "ryoshusho", "keiyakusho", "kyuyo"}
PathFileNames == {FileNameOf(1), <<"a", " ", "b", ".pdf">>}
PathStatuses == {NULL, "mishori", "shorizumi"}

\* Instants around the turn of a year, of a leap day and of a month, and in
\* the months 10 and 12
PathTimes ==
    {[y |-> 2025, m |-> 12, d |-> 31, h |-> 20], [y |-> 2026, m |-> 1, d |-> 1, h |-> 0],
     [y |-> 2026, m |-> 3, d |-> 1, h |-> 2], [y |-> 2024, m |-> 2, d |-> 29, h |-> 23],
     [y |-> 2026, m |-> 10, d |-> 15, h |-> 12], [y |-> 2026, m |-> 12, d |-> 31, h |-> 15],
     [y |-> 1999, m |-> 9, d |-> 30, h |-> 18]}

PathTzOffsets == TzOffsets \cup {0}

InitPath ==
    /\ pathIn \in {[type |-> t, fileName |-> f, time |-> w, tz |-> z, status |-> s] :
                     t \in PathTypes, f \in PathFileNames, w \in PathTimes,
                     z \in PathTzOffsets, s \in PathStatuses}
    /\ pathOut = [called |-> FALSE, path |-> NullText]
    /\ mail_pending = 0 /\ documents = 0 /\ files = 0 /\ reqs = 0 /\ faults = 0
    /\ patchResp = 0 /\ exportResp = 0 /\ ocrIn = 0 /\ ocrOut = 0
    /\ ruleIn = 0 /\ ruleOut = 0 /\ document_types = 0 /\ settingsResp = 0
    /\ user_roles = 0 /\ roleReqs = 0 /\ mailbox = 0 /\ fetchReq = 0

\* One call of getDocumentPath
CallGetDocumentPath ==
    /\ ~pathOut.called
    /\ pathOut' = [called |-> TRUE,
                   path |-> GetDocumentPath(pathIn.type, pathIn.fileName,
                                            LocalDate(pathIn.time, pathIn.tz),
                                            pathIn.status)]
    /\ UNCHANGED pathIn
    /\ PathFrame

NextPath == CallGetDocumentPath

SpecPath == InitPath /\ [][NextPath]_vars

(***************************************************************************)
(* getDocumentPath: the claims                                             *)
(***************************************************************************)
\* The local calendar day of the instant: the UTC day, the day before when
\* the local hour falls before midnight, the day after when it passes it.
C16_LocalDay ==
    LET t == pathIn.time
        hh == t.h + pathIn.tz
        last == DaysInMonth(t.y, t.m)
    IN CASE hh < 0 /\ t.d > 1 -> [y |-> t.y, m |-> t.m]
         [] hh < 0 /\ t.d = 1 /\ t.m > 1 -> [y |-> t.y, m |-> t.m - 1]
         [] hh < 0 /\ t.d = 1 /\ t.m = 1 -> [y |-> t.y - 1, m |-> 12]
         [] hh >= 24 /\ t.d < last -> [y |-> t.y, m |-> t.m]
         [] hh >= 24 /\ t.d = last /\ t.m < 12 -> [y |-> t.y, m |-> t.m + 1]
         [] hh >= 24 /\ t.d = last /\ t.m = 12 -> [y |-> t.y + 1, m |-> 1]
         [] OTHER -> [y |-> t.y, m |-> t.m]

\* C16: for a type other than the contract type, getDocumentPath returns
\* /keiri_shorui/<type>/<year, four digits>nen/<month, two digits, zero
\* padded>gatsu/<status>/<fileName>, where year and month are those of the
\* date in the server's local calendar and an omitted status is the
\* unprocessed status.
C16_MonthlyPath ==
    (pathOut.called /\ pathIn.type # "keiyakusho") =>
        LET y == C16_LocalDay.y
            m == C16_LocalDay.m
        IN pathOut.path =
             <<"/", "keiri_shorui", "/", pathIn.type, "/",
               Digit(y \div 1000), Digit((y \div 100) % 10), Digit((y \div 10) % 10),
               Digit(y % 10), "nen", "/",
               Digit(m \div 10), Digit(m % 10), "gatsu", "/",
               IF pathIn.status = NULL THEN "mishori" ELSE pathIn.status, "/">>
             \o pathIn.fileName

\* 20:00 UTC on 31 December 2025 read at UTC+9 is January 2026.
C16_Witness ==
    /\ pathOut.called
    /\ pathIn.type = "seikyusho"
    /\ pathIn.time = [y |-> 2025, m |-> 12, d |-> 31, h |-> 20]
    /\ pathIn.tz = 9
    /\ pathIn.status = "shorizumi"
    /\ pathOut.path =
         <<"/", "keiri_shorui", "/", "seikyusho", "/", "2", "0", "2", "6", "nen", "/",
           "0", "1", "gatsu", "/", "shorizumi", "/">> \o pathIn.fileName

(***************************************************************************)
(* Documents PATCH: more claims                                            *)
(***************************************************************************)
\* The PATCH request just answered reached the move decision.
PatchStep == patchResp'.n # patchResp.n /\ patchResp'.id # 0

\* /keiri_shorui/keiyakusho/<fileName> for the file name of a stored path
ContractPathOf(path) ==
    <<"/", "keiri_shorui", "/", "keiyakusho", "/">> \o LastSegment(path)

\* C17: the path of a contract is /keiri_shorui/keiyakusho/<fileName> for
\* every date and status.  A PATCH that changes the status of a document
\* whose type after the request is the contract type moves the file, when
\* it moves it, to that path; and when the document is already stored at
\* that path it calls no move and leaves files and stored path as they are.
C17_ContractPathIgnoresDateAndStatus ==
    [][LET r == patchResp'
           b == r.before
           newType == IF "type" \in r.body.has THEN r.body.val.type ELSE b.type
       IN (/\ PatchStep
           /\ "status" \in r.body.has
           /\ r.body.val.status # b.status
           /\ b.dropbox_path # NullText
           /\ newType = "keiyakusho") =>
              /\ r.move = "moved" =>
                    /\ ContractPathOf(b.dropbox_path) \in files'
                    /\ r.status = 200 => r.data.dropbox_path = ContractPathOf(b.dropbox_path)
              /\ b.dropbox_path = ContractPathOf(b.dropbox_path) =>
                    /\ r.move = "none"
                    /\ files' = files
                    /\ documents'[r.id].dropbox_path = b.dropbox_path]_vars

\* A contract already at its path is marked processed: no move.
C17_Witness ==
    /\ patchResp.id = 1
    /\ patchResp.status = 200
    /\ patchResp.before.type = "keiyakusho"
    /\ patchResp.before.dropbox_path =
         <<"/", "keiri_shorui", "/", "keiyakusho", "/">> \o FileNameOf(1)
    /\ patchResp.before.status = "mishori"
    /\ patchResp.before.issue_date # NullDate
    /\ patchResp.body.has = {"status"}
    /\ patchResp.data.status = "shorizumi"
    /\ patchResp.move = "none"
    /\ patchResp.data.dropbox_path = patchResp.before.dropbox_path

\* C19: a PATCH calls the storage move only when the request gives a status
\* different from the stored one, the stored path is not null and the
\* recomputed path differs from the stored path; a request that gives no
\* status, whatever else it changes, calls no move and leaves the files and
\* the stored path as they are.
C19_MoveOnlyOnStatusChange ==
    [][LET r == patchResp'
           b == r.before
       IN PatchStep =>
            /\ r.move # "none" =>
                  /\ "status" \in r.body.has
                  /\ r.body.val.status # b.status
                  /\ b.dropbox_path # NullText
                  /\ PatchNewPath(b, BuildUpdate(r.body), r.tz) # b.dropbox_path
            /\ r.move # "moved" => files' = files
            /\ "status" \notin r.body.has =>
                  /\ r.move = "none"
                  /\ files' = files
                  /\ documents'[r.id].dropbox_path = b.dropbox_path]_vars

\* A filed invoice is retyped as a receipt without a status: the row gets
\* the type and keeps its path.
C19_Witness ==
    /\ patchResp.id = 1
    /\ patchResp.status = 200
    /\ patchResp.before.type = "seikyusho"
    /\ patchResp.before.dropbox_path
         \notin {NullText, TempPathOf(1)}
    /\ patchResp.body.has = {"type"}
    /\ patchResp.data.type = "ryoshusho"
    /\ patchResp.move = "none"
    /\ patchResp.data.dropbox_path = patchResp.before.dropbox_path
    /\ documents[1].dropbox_path = patchResp.before.dropbox_path

(***************************************************************************)
(* Mail approve / reject API: more claims (under SpecMail)                 *)
(***************************************************************************)
\* The documents rows created for mail item i.
DocumentsOf(i) == {n \in 1..Len(documents) : documents[n].mail_id = i}

\* C18: whatever way Approve requests interleave, at most one Document is
\* ever created for a given mail item.
C18_AtMostOneDocumentPerItem ==
    \A i \in MailIds : Cardinality(DocumentsOf(i)) <= 1

\* The step in which request r is a Reject, from its arrival to its response.
RejectStep(r) ==
    reqs[r].pc = "idle" /\ reqs'[r].pc = "done" /\ reqs'[r].action = "reject"

\* C20: a Reject request creates no Document, moves, copies or uploads no
\* file, calls no AI analysis (it never enters the approve loop, the only
\* place of the re-analysis and of the move), and changes no mail item that
\* is not owned by the caller or not named in ids.
C20_RejectHasNoSideEffects ==
    [][\A r \in ReqIds : RejectStep(r) =>
          /\ documents' = documents
          /\ files' = files
          /\ reqs'[r].ocr = <<>> /\ reqs'[r].inserted = {} /\ reqs'[r].moveFailed = {}
          /\ \A q \in ReqIds \ {r} : reqs'[q] = reqs[q]
          /\ \A i \in MailIds :
                (mail_pending[i].user_id # reqs'[r].user \/ i \notin reqs'[r].ids)
                   => mail_pending'[i] = mail_pending[i]]_vars

\* u2 rejects items 1 and 2 and owns only item 2: item 1 stays pending, item
\* 2 is rejected, no Document exists and both temporary files are in place.
C20_Witness ==
    \E r \in ReqIds :
       /\ reqs[r].pc = "done" /\ reqs[r].action = "reject" /\ reqs[r].status = 200
       /\ reqs[r].user = "u2" /\ reqs[r].ids = {1, 2}
       /\ mail_pending[1].user_id = "u1" /\ mail_pending[1].status = "pending"
       /\ mail_pending[2].user_id = "u2" /\ mail_pending[2].status = "rejected"
       /\ documents = <<>>
       /\ files = {TempPathOf(1), TempPathOf(2)}

(***************************************************************************)
(* Accountant export, manual and cron: copy failures and the CSV summary   *)
(***************************************************************************)
\* The export just answered matched rows and no folder call threw.
ExportLoopsRan ==
    ExportStep /\ exportResp'.matched # <<>> /\ "folder_error" \notin exportResp'.ops

\* The matched rows with a file whose copyFile did not throw.
C21_Copied(r) ==
    {i \in SeqToSet(r.matched) :
       documents[i].dropbox_path # NullText /\ i \notin r.failing}

\* C21: a copy that fails does not stop the export.  Whatever copies throw,
\* the request is answered 200 (manual) or the user is processed (cron),
\* every matched document with a file whose own copy did not throw, in the
\* same group and in later groups, is copied and has its CSV row, and a
\* document whose copy threw has no CSV row and is not counted.
C21_CopyFailureDoesNotStop ==
    [][ExportLoopsRan =>
          LET r == exportResp'
          IN /\ r.status = 200
             /\ \A i \in C21_Copied(r) :
                   /\ \E k \in 1..Len(r.csv.rows) : r.csv.rows[k] = i
                   /\ \E f \in files' \ files : IsCopyOf(f, i)
             /\ \A i \in r.failing : \A k \in 1..Len(r.csv.rows) : r.csv.rows[k] # i
             /\ r.route = "manual" =>
                   /\ r.total_count = Cardinality(C21_Copied(r))
                   /\ \A k \in 1..Len(r.results) :
                         r.results[k].count =
                           Cardinality({i \in C21_Copied(r) :
                                          documents[i].type = r.results[k].type})
             /\ r.route = "cron" => r.processed_users = 1]_vars

\* The copy of invoice 1 threw; invoice 3 of the same group and receipt 2 of
\* the next group were copied and counted.
C21_Witness ==
    /\ exportResp.route = "manual"
    /\ exportResp.status = 200
    /\ exportResp.matched = <<1, 3, 2>>
    /\ exportResp.failing = {1}
    /\ exportResp.csv.rows = <<3, 2>>
    /\ exportResp.total_count = 2
    /\ exportResp.results[1].count = 1 /\ exportResp.results[2].count = 1
    /\ \E f \in AccountantFiles : IsCopyOf(f, 3)
    /\ \E f \in AccountantFiles : IsCopyOf(f, 2)
    /\ \A f \in AccountantFiles : ~IsCopyOf(f, 1)

\* What C23 says of the export just answered: createCsvInDropbox is called
\* exactly when the export copied a file, the summary is in Dropbox exactly
\* when the call did not throw, and a call that threw leaves status 200
\* and the counts and amounts what the copies and the matched rows make them.
C23_CsvRule ==
    LET r == exportResp'
    IN /\ r.csv.tried <=> (\E f \in files' \ files : ~IsCsvSummary(f))
       /\ r.csv.written <=> (\E f \in files' \ files : IsCsvSummary(f))
       /\ r.csv.written => r.csv.tried
       /\ (r.csv.tried /\ ~r.csv.written) =>
             /\ r.status = 200
             /\ r.route = "manual" =>
                   /\ r.total_count = Cardinality(C21_Copied(r))
                   /\ r.total_amount = SumAmounts(SeqToSet(r.matched))
                   /\ Len(r.results) > 0
             /\ r.route = "cron" => r.processed_users = 1

C22_ApprovedDocumentFields ==
    [][\A r \in ReqIds :
          (InsertStep(r) /\ Len(documents') = Len(documents) + 1) =>
             LET q == reqs[r]
                 item == q.items[q.k]
                 d == documents'[Len(documents')]
             IN /\ d.input_method = "email"
                /\ d.status = "mishori"
                /\ d.mail_id = item.id
                /\ q.payload =>
                      /\ d.vendor_name = IF q.ocr[1].vendor_name # <<>>
                                         THEN q.ocr[1].vendor_name ELSE item.sender
                      /\ d.description = IF q.ocr[1].description # NullText
                                         THEN q.ocr[1].description
                                         ELSE <<"mail_tenpu:">> \o item.file_name
                      /\ d.amount = q.ocr[1].amount
                      /\ d.issue_date = DateColumn(q.ocr[1].issue_date)
                      /\ d.due_date = DateColumn(q.ocr[1].due_date)
                /\ ~q.payload =>
                      /\ d.vendor_name = item.sender
                      /\ d.description = <<"mail_tenpu:">> \o item.file_name
                      /\ d.amount = NullNum
                      /\ d.issue_date = NullDate /\ d.due_date = NullDate]_vars

\* One Document took the sender for an empty re-analysis vendor name and the
\* re-analysis description, amount 0 and due date; another took the
\* re-analysis vendor name, description, amount and issue date.
C22_Witness ==
    \E a, b \in 1..Len(documents) :
       /\ documents[a].vendor_name = <<"s">>
       /\ documents[a].description = <<"d">>
       /\ documents[a].amount = 0
       /\ documents[a].due_date = [y |-> 2026, m |-> 4, d |-> 30]
       /\ documents[a].input_method = "email" /\ documents[a].status = "mishori"
       /\ documents[b].vendor_name = <<"v">>
       /\ documents[b].description = <<"d">>
       /\ documents[b].amount = 100
       /\ documents[b].issue_date = [y |-> 2026, m |-> 3, d |-> 15]
       /\ documents[b].due_date = NullDate

(***************************************************************************)
(* Accountant export, manual and cron: the date range of the query         *)
(***************************************************************************)
\* C24: for every target month that passes the validation, the range of
\* the documents query is the first to the last day of that calendar
\* month, the last day being the number of days the month has in that
\* year, and both bounds are calendar dates.
C24_QueryRangeIsCalendarMonth ==
    "query" \in exportResp.ops =>
        LET from == exportResp.date_from
            to == exportResp.date_to
        IN /\ from.m \in 1..12
           /\ from.d = 1
           /\ to.y = from.y /\ to.m = from.m
           /\ to.d = DaysInMonth(from.y, from.m)
           /\ from.y = ParseInt(YearStrOf(exportResp.target_month))
           /\ from.m = ParseInt(MonthStrOf(exportResp.target_month))

(***************************************************************************)
(* applyAutoClassifyRules: more claims                                     *)
(***************************************************************************)
\* C25: applyAutoClassifyRules returns a result whose vendor_name, amount,
\* issue_date, due_date, description and confidence are those of the
\* input, returns a new record and not the input object, and leaves the
\* input result and the input rules array as they were.
C25_ReturnsUnmutatedCopy ==
    ruleOut.called =>
        /\ \A f \in {"vendor_name", "amount", "issue_date", "due_date", "description",
                      "confidence"} : ruleOut.result[f] = ruleIn.result[f]
        /\ ~ruleOut.same_object
        /\ ruleOut.input_result = ruleIn.result
        /\ ruleOut.input_rules = ruleIn.rules

\* The search text the claim names: vendor name, one space, description
\* (nothing for a null description), in lower case.
C26_SearchText ==
    ToLowerCase(ruleIn.result.vendor_name \o <<" ">>
                  \o (IF ruleIn.result.description = NullText THEN <<>>
                      ELSE ruleIn.result.description))

\* k occurs in h as a run of consecutive characters.
C26_IsSubstring(h, k) ==
    \E i \in 0..(Len(h) - Len(k)) : \A j \in 1..Len(k) : h[i + j] = k[j]

\* The active rules whose keyword, in lower case, occurs in the search text.
C26_Matching ==
    {i \in 1..Len(ruleIn.rules) :
       /\ ruleIn.rules[i].is_active
       /\ C26_IsSubstring(C26_SearchText, ToLowerCase(ruleIn.rules[i].keyword))}

\* C26: an active rule matches exactly when its keyword, compared without
\* regard to case, is a substring of vendor name, space, description (null
\* as empty); no other field counts.  So the output has the type of one of
\* these rules when there is one, and the input type when there is none.
C26_MatchIsSubstringOfVendorAndDescription ==
    ruleOut.called =>
        /\ C26_Matching = {} => ruleOut.result.type = ruleIn.result.type
        /\ C26_Matching # {} =>
              \E i \in C26_Matching : ruleOut.result.type = ruleIn.rules[i].document_type

\* Vendor "c", description "b": the rule with keyword "c b" applies, the
\* rule with keyword "z", which the issue date holds, does not.
C26_Witness ==
    /\ ruleOut.called
    /\ ruleIn.result.vendor_name = <<"c">>
    /\ ruleIn.result.description = <<"b">>
    /\ ruleIn.result.issue_date = <<"z">>
    /\ Len(ruleIn.rules) = 2
    /\ ruleIn.rules[1].keyword = <<"z">> /\ ruleIn.rules[1].is_active
    /\ ruleIn.rules[1].priority = 10
    /\ ruleIn.rules[2].keyword = <<"c", " ", "b">> /\ ruleIn.rules[2].is_active
    /\ ruleIn.rules[2].priority = 5
    /\ ruleOut.result.type = ruleIn.rules[2].document_type

(***************************************************************************)
(* parseOcrResponse: more claims                                           *)
(***************************************************************************)
\* The member of the parsed object the field is read from.
C27_Member(f) == Property(JsonParse(Cleaned(ocrIn.text)), f)

\* C27: when the response parses to a JSON object, each field of the
\* result is decided on its own member alone: a string member gives
\* vendor_name, issue_date, due_date, description and type, a number member
\* gives amount and confidence, and a member that is absent or of another
\* type gives the default (empty string for vendor_name, 0 for confidence,
\* null for the rest), whatever the other members are.
C27_FieldsDecidedIndependently ==
    (ocrOut.called /\ ocrIn.shape = "object") =>
        /\ \A f \in {"issue_date", "due_date", "description"} :
              ocrOut.value[f] = IF C27_Member(f).kind = "string" THEN C27_Member(f).str
                                ELSE NullText
        /\ ocrOut.value.vendor_name =
              IF C27_Member("vendor_name").kind = "string"
              THEN C27_Member("vendor_name").str ELSE <<>>
        /\ ocrOut.value.type =
              IF C27_Member("type").kind = "string"
              THEN TypeAtom(C27_Member("type").str) ELSE NULL
        /\ ocrOut.value.amount =
              IF C27_Member("amount").kind = "number" THEN C27_Member("amount").num
              ELSE NullNum
        /\ ocrOut.value.confidence =
              IF C27_Member("confidence").kind = "number"
              THEN C27_Member("confidence").num ELSE 0

\* vendor_name holds a number and amount a number: vendor_name becomes the
\* empty string and amount is kept.
C27_Witness ==
    /\ ocrOut.called
    /\ ocrIn.text = <<"{", "\"vendor_name\"", ":", "120", ",", "\"amount\"", ":", "120",
                      "}">>
    /\ ocrOut.value.vendor_name = <<>>
    /\ ocrOut.value.amount = 120
    /\ ocrOut.value.confidence = 0
    /\ ocrOut.value.type = NULL

(***************************************************************************)
(* Roles API: PATCH /api/analytics (role change, admin only)               *)
(*                                                                         *)
(* Every await of the handler that reads or writes the table user_roles is *)
(* a step of its own, so that requests interleave between them.  The       *)
(* update and the insert run under the row level security policy of the    *)
(* table, which the database evaluates on the snapshot taken when the      *)
(* statement starts; the write becomes visible to other statements when it *)
(* commits.                                                                *)
(***************************************************************************)
MaxRoleReqs == 2    \* PATCH requests in one run
RoleReqIds == 1..MaxRoleReqs

RolesFrame2 == UNCHANGED <<mail_pending, documents, files, reqs, faults, patchResp,
                           exportResp, ocrIn, ocrOut, ruleIn, ruleOut, document_types,
                           settingsResp, pathIn, pathOut, mailbox, fetchReq>>

validRoles == {"admin", "staff", "viewer"}
BodyRoles == {NULL, "admin", "staff", "viewer", "owner"}
BodyUserIds == Users \cup {NULL}
DisplayNames == {NullText, <<"n">>}

NoRoleRow == [role |-> NULL, display_name |-> NullText]
HasRow(tbl, u) == tbl[u].role # NULL
Admins(tbl) == {u \in Users : tbl[u].role = "admin"}

\* getCurrentUserRole: the role of the row of the user, "staff" without one.
GetCurrentUserRole(tbl, u) == IF HasRow(tbl, u) THEN tbl[u].role ELSE "staff"

\* Policy "Admin can manage all user_roles": the statement of user u may
\* touch any row when u has a row with role admin.
AdminPolicy(tbl, u) == tbl[u].role = "admin"

\* Policy "Users can view own role", with the admin policy: the rows a
\* select of user u sees.
VisibleTo(tbl, u, target) == HasRow(tbl, target) /\ (AdminPolicy(tbl, u) \/ target = u)

IdleRoleReq ==
    [pc |-> "idle", caller |-> NULL, user_id |-> NULL, role |-> NULL,
     display_name |-> NullText, existing |-> FALSE, allowed |-> FALSE, status |-> 0]

RoleCanStart(r) ==
    roleReqs[r].pc = "idle" /\ (IF r = 1 THEN TRUE ELSE roleReqs[r - 1].pc # "idle")

RoleRespond(q, status) == [q EXCEPT !.pc = "done", !.status = status]

\* The request would take the admin role from its own caller.
SelfDemotion(userId, user_id, role) == user_id = userId /\ role # NULL /\ role # "admin"

\* From the start of PATCH to the select of the existing row:
\* getCurrentUserRole, the 401 and 403 exits and the checks of the body.
RolePatchStart(r, caller, user_id, role, display_name) ==
    /\ RoleCanStart(r)
    /\ LET q == [IdleRoleReq EXCEPT !.caller = caller, !.user_id = user_id, !.role = role,
                                    !.display_name = display_name]
       IN roleReqs' =
            [roleReqs EXCEPT ![r] =
               IF caller = NULL THEN RoleRespond(q, 401)
               ELSE IF GetCurrentUserRole(user_roles, caller) # "admin"
               THEN RoleRespond(q, 403)
               ELSE IF user_id = NULL THEN RoleRespond(q, 400)
               ELSE IF role # NULL /\ role \notin validRoles THEN RoleRespond(q, 400)
               ELSE IF SelfDemotion(caller, user_id, role) THEN RoleRespond(q, 400)
               ELSE [q EXCEPT !.pc = "select"]]
    /\ UNCHANGED user_roles
    /\ RolesFrame2

\* select("id").eq("user_id", user_id).maybeSingle()
RoleSelectExisting(r) ==
    /\ roleReqs[r].pc = "select"
    /\ LET q == roleReqs[r]
       IN roleReqs' =
            [roleReqs EXCEPT ![r] =
               [q EXCEPT !.pc = "statement",
                         !.existing = VisibleTo(user_roles, q.caller, q.user_id)]]
    /\ UNCHANGED user_roles
    /\ RolesFrame2

\* The update or the insert starts: the policy is evaluated on the table as
\* it is now.
RoleStatementBegin(r) ==
    /\ roleReqs[r].pc = "statement"
    /\ LET q == roleReqs[r]
       IN roleReqs' =
            [roleReqs EXCEPT ![r] =
               [q EXCEPT !.pc = "commit", !.allowed = AdminPolicy(user_roles, q.caller)]]
    /\ UNCHANGED user_roles
    /\ RolesFrame2

\* The row after update(update): role when the body has one, display_name
\* when the body has a string.
UpdatedRow(row, role, display_name) ==
    [role |-> IF role # NULL THEN role ELSE row.role,
     display_name |-> IF display_name # NullText THEN display_name ELSE row.display_name]

\* insert({ user_id, role: role || "staff", display_name: display_name || null })
InsertedRow(role, display_name) ==
    [role |-> IF role # NULL THEN role ELSE "staff", display_name |-> display_name]

\* The update or the insert commits.  An update the policy filters out
\* changes no row and single() reports an error; an insert fails under the
\* policy or on the unique index of user_id.
RoleStatementCommit(r) ==
    /\ roleReqs[r].pc = "commit"
    /\ LET q == roleReqs[r]
       IN IF q.existing
          THEN IF q.allowed
               THEN /\ user_roles' =
                         [user_roles EXCEPT ![q.user_id] =
                            UpdatedRow(@, q.role, q.display_name)]
                    /\ roleReqs' = [roleReqs EXCEPT ![r] = RoleRespond(q, 200)]
               ELSE /\ UNCHANGED user_roles
                    /\ roleReqs' = [roleReqs EXCEPT ![r] = RoleRespond(q, 500)]
          ELSE IF q.allowed /\ ~HasRow(user_roles, q.user_id)
               THEN /\ user_roles' =
                         [user_roles EXCEPT ![q.user_id] =
                            InsertedRow(q.role, q.display_name)]
                    /\ roleReqs' = [roleReqs EXCEPT ![r] = RoleRespond(q, 201)]
               ELSE /\ UNCHANGED user_roles
                    /\ roleReqs' = [roleReqs EXCEPT ![r] = RoleRespond(q, 500)]
    /\ RolesFrame2

\* Before any request: u1 is an admin; u2 is an admin, a member of staff or
\* has no row.
InitRoles ==
    /\ \E role2 \in {NULL, "admin", "staff"} :
         user_roles = [u \in Users |->
                         IF u = "u1" THEN [role |-> "admin", display_name |-> NullText]
                         ELSE [role |-> role2, display_name |-> NullText]]
    /\ roleReqs = [r \in RoleReqIds |-> IdleRoleReq]
    /\ mailbox = 0 /\ fetchReq = 0
    /\ mail_pending = 0 /\ documents = 0 /\ files = 0 /\ reqs = 0 /\ faults = 0
    /\ patchResp = 0 /\ exportResp = 0 /\ ocrIn = 0 /\ ocrOut = 0
    /\ ruleIn = 0 /\ ruleOut = 0 /\ document_types = 0 /\ settingsResp = 0
    /\ pathIn = 0 /\ pathOut = 0

NextRoles ==
    \E r \in RoleReqIds :
        \/ \E caller \in BodyUserIds, user_id \in BodyUserIds, role \in BodyRoles,
              display_name \in DisplayNames :
              RolePatchStart(r, caller, user_id, role, display_name)
        \/ RoleSelectExisting(r)
        \/ RoleStatementBegin(r)
        \/ RoleStatementCommit(r)

SpecRoles == InitRoles /\ [][NextRoles]_vars

\* C28: when at least one user has the role admin, at least one user has it
\* after any interleaving of role-change PATCH requests.
C28_AdminRemains == Admins(user_roles) # {}

(***************************************************************************)
(* Mail fetch: POST /api/mail/fetch and fetchUnreadMailsWithAttachments    *)
(*                                                                         *)
(* One request.  mail_pending is the table as a sequence of rows in        *)
(* insertion order, the id of a row being its position; files is the set   *)
(* of Dropbox paths that hold a file.                                      *)
(***************************************************************************)
NumMsgs == 2           \* messages in the mailbox
MaxAttachments == 2    \* parts of one message
MsgIds == 1..NumMsgs

FetchFrame == UNCHANGED <<documents, reqs, faults, patchResp, exportResp, ocrIn, ocrOut,
                          ruleIn, ruleOut, document_types, settingsResp, pathIn, pathOut,
                          user_roles, roleReqs>>

ALLOWED_MIME_TYPES == {"application/pdf", "image/jpeg", "image/jpg", "image/png"}
MAX_FETCH_COUNT == 20

\* The parts a message can carry: a PDF, an image, a text file.
MailParts ==
    {[fileName |-> <<"a">>, mimeType |-> "application/pdf"],
     [fileName |-> <<"b">>, mimeType |-> "image/png"],
     [fileName |-> <<"c">>, mimeType |-> "text/plain"]}
PartLists == UNION {[1..n -> MailParts] : n \in 0..MaxAttachments}
SenderEmails == {<<"a">>, <<"c">>}
\* allowed_senders of the user, stored in upper case
AllowedEmails == {<<"A">>}
\* What analyzeDocument returns: the fallback, or a type with confidence 1.
FetchAiResults == {[type |-> NULL, confidence |-> 0], [type |-> "seikyusho", confidence |-> 1]}

\* extractAttachments: the parts of an allowed MIME type, in order.
IsAllowedPart(part) == part.mimeType \in ALLOWED_MIME_TYPES
ExtractAttachments(parts) == SelectSeq(parts, IsAllowedPart)

\* allowedEmails.some((e) => e.toLowerCase() === senderEmail.toLowerCase())
SenderAllowed(allowedEmails, senderEmail) ==
    \E e \in allowedEmails : ToLowerCase(e) = ToLowerCase(senderEmail)

\* The query "is:unread has:attachment", at most MAX_FETCH_COUNT ids.
ListedIds(mb) ==
    LET all == SetToSeq({i \in MsgIds : mb[i].unread /\ Len(mb[i].parts) > 0})
    IN SubSeq(all, 1, IF Len(all) < MAX_FETCH_COUNT THEN Len(all) ELSE MAX_FETCH_COUNT)

\* The temporary path of an attachment.
FetchTempPath(fileName) == <<"/", "keiri_shorui", "/", "ichiji_hozon", "/">> \o fileName

IdleFetch ==
    [pc |-> "idle", user |-> NULL, messageIds |-> <<>>, next |-> 1, mails |-> <<>>,
     mail |-> 1, attachment |-> 1, results |-> <<>>, status |-> 0]

FetchRespond(q, status) == [q EXCEPT !.pc = "done", !.status = status]

\* POST up to the call of fetchUnreadMailsWithAttachments.
FetchPostStart(u, senders) ==
    /\ fetchReq.pc = "idle"
    /\ fetchReq' =
         IF u = NULL THEN FetchRespond(fetchReq, 401)
         ELSE IF senders = "error" THEN FetchRespond(fetchReq, 500)
         ELSE IF senders = "none" THEN FetchRespond(fetchReq, 400)
         ELSE [fetchReq EXCEPT !.pc = "list", !.user = u]
    /\ UNCHANGED <<mailbox, mail_pending, files>>
    /\ FetchFrame

\* gmail.users.messages.list; a throw ends the request with 500.
FetchList(outcome) ==
    /\ fetchReq.pc = "list"
    /\ fetchReq' =
         IF outcome = "failed" THEN FetchRespond(fetchReq, 500)
         ELSE [fetchReq EXCEPT !.pc = "get", !.messageIds = ListedIds(mailbox)]
    /\ UNCHANGED <<mailbox, mail_pending, files>>
    /\ FetchFrame

\* One turn of the loop over the listed ids: the message is read, skipped
\* when its sender is not allowed or no part is accepted, and otherwise
\* marked as read and added to the mails returned.  A throw of a Gmail call
\* before the message is marked ends the request with 500.
FetchMessage(outcome) ==
    /\ fetchReq.pc = "get"
    /\ fetchReq.next <= Len(fetchReq.messageIds)
    /\ LET id == fetchReq.messageIds[fetchReq.next]
           msg == mailbox[id]
           attachments == ExtractAttachments(msg.parts)
           q == [fetchReq EXCEPT !.next = @ + 1]
       IN IF outcome = "failed"
          THEN /\ fetchReq' = FetchRespond(fetchReq, 500)
               /\ UNCHANGED mailbox
          ELSE IF ~SenderAllowed(AllowedEmails, msg.senderEmail) \/ Len(attachments) = 0
          THEN /\ fetchReq' = q
               /\ UNCHANGED mailbox
          ELSE /\ mailbox' = [mailbox EXCEPT ![id].unread = FALSE]
               /\ fetchReq' =
                    [q EXCEPT !.mails =
                       Append(@, [messageId |-> id, sender |-> msg.senderEmail,
                                  receivedAt |-> msg.receivedAt,
                                  attachments |-> attachments])]
    /\ UNCHANGED <<mail_pending, files>>
    /\ FetchFrame

\* fetchUnreadMailsWithAttachments returns and the loops of POST start.
FetchReturn ==
    /\ fetchReq.pc = "get"
    /\ fetchReq.next > Len(fetchReq.messageIds)
    /\ fetchReq' = [fetchReq EXCEPT !.pc = "upload"]
    /\ UNCHANGED <<mailbox, mail_pending, files>>
    /\ FetchFrame

\* The position after the current attachment.
NextAttachment(q) ==
    IF q.attachment < Len(q.mails[q.mail].attachments)
    THEN [q EXCEPT !.attachment = @ + 1]
    ELSE [q EXCEPT !.mail = @ + 1, !.attachment = 1]

\* The row inserted for an attachment.
PendingRow(id, u, mail, attachment, ai, uploadedPath) ==
    [id |-> id, file_name |-> attachment.fileName, sender |-> mail.sender,
     received_at |-> mail.receivedAt, ai_type |-> ai.type,
     ai_confidence |-> ai.confidence, temp_path |-> uploadedPath, status |-> "pending",
     user_id |-> u]

\* One turn of the inner loop: upload to the temporary folder (overwriting
\* a file of the same path), AI analysis, insert into mail_pending.  A throw
\* of the upload ends the request with 500; an insert error skips the
\* attachment.
FetchAttachment(outcome, ai) ==
    /\ fetchReq.pc = "upload"
    /\ fetchReq.mail <= Len(fetchReq.mails)
    /\ LET mail == fetchReq.mails[fetchReq.mail]
           attachment == mail.attachments[fetchReq.attachment]
           uploadedPath == FetchTempPath(attachment.fileName)
           q == NextAttachment(fetchReq)
       IN IF outcome = "upload_failed"
          THEN /\ fetchReq' = FetchRespond(fetchReq, 500)
               /\ UNCHANGED <<mail_pending, files>>
          ELSE /\ files' = files \cup {uploadedPath}
               /\ IF outcome = "insert_failed"
                  THEN /\ fetchReq' = q
                       /\ UNCHANGED mail_pending
                  ELSE /\ mail_pending' =
                            Append(mail_pending,
                                   PendingRow(Len(mail_pending) + 1, fetchReq.user, mail,
                                              attachment, ai, uploadedPath))
                       /\ fetchReq' =
                            [q EXCEPT !.results =
                               Append(@, [file_name |-> attachment.fileName,
                                          sender |-> mail.sender, ai_type |-> ai.type,
                                          ai_confidence |-> ai.confidence])]
    /\ UNCHANGED mailbox
    /\ FetchFrame

\* The response after the loops.
FetchDone ==
    /\ fetchReq.pc = "upload"
    /\ fetchReq.mail > Len(fetchReq.mails)
    /\ fetchReq' = FetchRespond(fetchReq, 200)
    /\ UNCHANGED <<mailbox, mail_pending, files>>
    /\ FetchFrame

\* The mailbox before the request: every message has its own date.
InitFetch ==
    /\ mailbox \in {[i \in MsgIds |->
                       [unread |-> un[i], senderEmail |-> se[i], receivedAt |-> i,
                        parts |-> pa[i]]] :
                    un \in [MsgIds -> BOOLEAN], se \in [MsgIds -> SenderEmails],
                    pa \in [MsgIds -> PartLists]}
    /\ fetchReq = IdleFetch
    /\ mail_pending = <<>>
    /\ files = {}
    /\ documents = 0 /\ reqs = 0 /\ faults = 0
    /\ patchResp = 0 /\ exportResp = 0 /\ ocrIn = 0 /\ ocrOut = 0
    /\ ruleIn = 0 /\ ruleOut = 0 /\ document_types = 0 /\ settingsResp = 0
    /\ pathIn = 0 /\ pathOut = 0 /\ user_roles = 0 /\ roleReqs = 0

NextFetch ==
    \/ \E u \in {NULL, "u1"}, senders \in {"error", "none", "some"} : FetchPostStart(u, senders)
    \/ \E outcome \in {"ok", "failed"} : FetchList(outcome)
    \/ \E outcome \in {"ok", "failed"} : FetchMessage(outcome)
    \/ FetchReturn
    \/ \E outcome \in {"ok", "upload_failed", "insert_failed"}, ai \in FetchAiResults :
          FetchAttachment(outcome, ai)
    \/ FetchDone

SpecFetch == InitFetch /\ [][NextFetch]_vars

\* The messages the request marked as read.
C29_MarkedRead ==
    {i \in SeqToSet(fetchReq.messageIds) : ~mailbox[i].unread}

\* The pending rows made from message i.
C29_RowsOf(i) ==
    {n \in 1..Len(mail_pending) : mail_pending[n].received_at = mailbox[i].receivedAt}

\* C29: when a mail fetch has ended, every message it marked as read has one
\* pending mail item per accepted attachment.
C29_ReadMessagesBecomePending ==
    fetchReq.pc = "done" =>
        \A i \in C29_MarkedRead :
            Cardinality(C29_RowsOf(i)) = Len(ExtractAttachments(mailbox[i].parts))

\* C30: two distinct pending mail items never have the same temporary path.
C30_TempPathsDistinct ==
    \A m, n \in 1..Len(mail_pending) :
        (m # n /\ mail_pending[m].status = "pending" /\ mail_pending[n].status = "pending")
            => mail_pending[m].temp_path # mail_pending[n].temp_path

====
